---- MODULE Spec2Model ----
(***************************************************************************)
(* Verification model of the Water-Monitoring risk-assessment engine:      *)
(*   shared/utils/risk-calculation.ts   calculateRiskLevel,                *)
(*                                       getRiskCategory,                  *)
(*                                       calculateWaterTestRisk            *)
(*   shared/utils/testing-analysis      parseNumericValue,                 *)
(*                                       isInCriticalRange, getRiskLevel,  *)
(*                                       analyzeTestResults                *)
(*   shared/data/testing-kits           the kit catalog                    *)
(*                                                                         *)
(* The engine computes with ECMAScript Numbers, i.e. IEEE-754 binary64     *)
(* values.  Rounding of the intermediate sums and products decides the     *)
(* final Math.round at .5 ties, so Numbers are modelled bit-exactly: a     *)
(* finite Number is sign * m * 2^e with m an arbitrary-precision natural   *)
(* (53 significant bits once rounded), and every arithmetic operator       *)
(* rounds to nearest, ties to even.  Strings are sequences of one-char     *)
(* strings so that includes/startsWith/substring/split/match/parseFloat    *)
(* can be computed character by character.                                 *)
(***************************************************************************)
EXTENDS Integers, Sequences, FiniteSets, TLC

(***************************************************************************)
(* Arbitrary-precision naturals: little-endian sequences of 15-bit limbs,  *)
(* no high zero limb; <<>> is zero.                                        *)
(***************************************************************************)
Limb == 32768
LimbBits == 15

RECURSIVE Pow2(_)
Pow2(k) == IF k = 0 THEN 1 ELSE 2 * Pow2(k - 1)

RECURSIVE BigNorm(_)
BigNorm(a) ==
  IF a = <<>> THEN a
  ELSE IF a[Len(a)] = 0 THEN BigNorm(SubSeq(a, 1, Len(a) - 1))
  ELSE a

RECURSIVE BigFromInt(_)
BigFromInt(n) == IF n = 0 THEN <<>> ELSE <<n % Limb>> \o BigFromInt(n \div Limb)

RECURSIVE BigToInt(_)
BigToInt(a) == IF a = <<>> THEN 0 ELSE Head(a) + Limb * BigToInt(Tail(a))

BigHead(a) == IF a = <<>> THEN 0 ELSE Head(a)
BigTail(a) == IF a = <<>> THEN a ELSE Tail(a)

RECURSIVE BigAddC(_, _, _)
BigAddC(a, b, c) ==
  IF a = <<>> /\ b = <<>> THEN (IF c = 0 THEN <<>> ELSE <<c>>)
  ELSE LET x == BigHead(a) + BigHead(b) + c
       IN  <<x % Limb>> \o BigAddC(BigTail(a), BigTail(b), x \div Limb)

BigAdd(a, b) == BigAddC(a, b, 0)

RECURSIVE BigSubB(_, _, _)
BigSubB(a, b, br) ==
  IF a = <<>> THEN <<>>
  ELSE LET x == Head(a) - BigHead(b) - br
       IN  <<x % Limb>> \o BigSubB(Tail(a), BigTail(b), IF x < 0 THEN 1 ELSE 0)

\* a - b for a >= b
BigSub(a, b) == BigNorm(BigSubB(a, b, 0))

RECURSIVE BigCmpAt(_, _, _)
BigCmpAt(a, b, i) ==
  IF i = 0 THEN 0
  ELSE IF a[i] < b[i] THEN -1
  ELSE IF a[i] > b[i] THEN 1
  ELSE BigCmpAt(a, b, i - 1)

\* -1, 0, 1 as a < b, a = b, a > b
BigCmp(a, b) ==
  IF Len(a) < Len(b) THEN -1
  ELSE IF Len(a) > Len(b) THEN 1
  ELSE BigCmpAt(a, b, Len(a))

RECURSIVE BigMulSmallC(_, _, _)
BigMulSmallC(a, k, c) ==
  IF a = <<>> THEN (IF c = 0 THEN <<>> ELSE <<c>>)
  ELSE LET x == Head(a) * k + c
       IN  <<x % Limb>> \o BigMulSmallC(Tail(a), k, x \div Limb)

\* a * k for 0 <= k < Limb
BigMulSmall(a, k) == BigNorm(BigMulSmallC(a, k, 0))

BigShiftLimb(a) == IF a = <<>> THEN a ELSE <<0>> \o a

RECURSIVE BigMul(_, _)
BigMul(a, b) ==
  IF b = <<>> THEN <<>>
  ELSE BigAdd(BigMulSmall(a, Head(b)), BigShiftLimb(BigMul(a, Tail(b))))

\* one step of the long division: limb h below the quotient hq and
\* remainder r of the higher limbs
BigDivStep(x, d, hq) == [q |-> <<x \div d>> \o hq, r |-> x % d]

BigDivLimb(h, d, hi) == BigDivStep(hi.r * Limb + h, d, hi.q)

RECURSIVE BigDivSmallR(_, _)
BigDivSmallR(a, d) ==
  IF a = <<>> THEN [q |-> <<>>, r |-> 0]
  ELSE BigDivLimb(Head(a), d, BigDivSmallR(Tail(a), d))

BigNormQ(qr) == [q |-> BigNorm(qr.q), r |-> qr.r]

\* quotient and remainder of a by d, 0 < d <= 65536
BigDivSmall(a, d) == BigNormQ(BigDivSmallR(a, d))

RECURSIVE BigShlLimbs(_, _)
BigShlLimbs(a, n) == IF n = 0 THEN a ELSE BigShlLimbs(BigShiftLimb(a), n - 1)

\* a * 2^k
BigShl(a, k) == BigShlLimbs(BigMulSmall(a, Pow2(k % LimbBits)), k \div LimbBits)

\* floor(a / 2^k)
BigShr(a, k) ==
  IF k \div LimbBits >= Len(a) THEN <<>>
  ELSE BigDivSmall(SubSeq(a, k \div LimbBits + 1, Len(a)), Pow2(k % LimbBits)).q

RECURSIVE SmallBitLen(_)
SmallBitLen(n) == IF n = 0 THEN 0 ELSE 1 + SmallBitLen(n \div 2)

BigBitLen(a) ==
  IF a = <<>> THEN 0 ELSE LimbBits * (Len(a) - 1) + SmallBitLen(a[Len(a)])

BigOne == <<1>>
BigIsOdd(a) == a # <<>> /\ a[1] % 2 = 1

\* the k low bits of a, compared with 2^(k-1), given q = floor(a / 2^k):
\* -1, 0, 1 as they are below, at or above one half
BigHalfCmp(a, k, q) == BigCmp(BigSub(a, BigShl(q, k)), BigShl(BigOne, k - 1))

(***************************************************************************)
(* ECMAScript Number values (IEEE-754 binary64).  A finite Number is       *)
(* (-1)^s * m * 2^e; after rounding m has exactly 53 bits (or is zero).    *)
(* NaN is the record with nan = TRUE.  Exponent overflow, subnormals and   *)
(* the sign of zero cannot occur for the magnitudes the engine handles     *)
(* and are not represented.  Every operator evaluates an intermediate      *)
(* value once and hands it on as an argument.                              *)
(***************************************************************************)
MantBits == 53

NaN == [nan |-> TRUE, s |-> 0, m |-> <<>>, e |-> 0]
Zero == [nan |-> FALSE, s |-> 0, m |-> <<>>, e |-> 0]
Finite(s, m, e) == [nan |-> FALSE, s |-> s, m |-> m, e |-> e]

IsNaN(x) == x.nan
IsZero(x) == ~x.nan /\ x.m = <<>>

\* a mantissa that rounding up has carried to 54 bits is renormalised
RoundCarry(s, q, e) ==
  IF BigBitLen(q) > MantBits THEN Finite(s, BigShr(q, 1), e + 1)
  ELSE Finite(s, q, e)

\* nearest, ties to even: c compares the dropped bits with one half
RoundNearestEven(s, q, e, c, sticky) ==
  RoundCarry(s,
             IF c > 0 \/ (c = 0 /\ (sticky \/ BigIsOdd(q)))
             THEN BigAdd(q, BigOne) ELSE q,
             e)

\* drop the k low bits of m
RoundDrop(s, m, e, sticky, k, q) ==
  RoundNearestEven(s, q, e + k, BigHalfCmp(m, k, q), sticky)

\* m has n bits
RoundBits(s, m, e, sticky, n) ==
  IF n = 0 THEN Zero
  ELSE IF n <= MantBits THEN Finite(s, BigShl(m, MantBits - n), e - (MantBits - n))
  ELSE RoundDrop(s, m, e, sticky, n - MantBits, BigShr(m, n - MantBits))

\* round (-1)^s * (m + f) * 2^e to binary64, where 0 < f < 1 iff sticky
\* (sticky only with m of more than 53 bits)
RoundD(s, m, e, sticky) == RoundBits(s, m, e, sticky, BigBitLen(m))

\* the Number of an integer literal or integer-valued expression
DFromInt(n) ==
  RoundD(IF n < 0 THEN 1 ELSE 0, BigFromInt(IF n < 0 THEN 0 - n ELSE n), 0, FALSE)

BigDivPow10Step(sticky, qr) == [q |-> qr.q, sticky |-> sticky \/ qr.r # 0]

\* qs.q divided by 10^k, qs.sticky recording any remainder dropped
RECURSIVE BigDivPow10(_, _)
BigDivPow10(qs, k) ==
  IF k = 0 THEN qs
  ELSE BigDivPow10(BigDivPow10Step(qs.sticky, BigDivSmall(qs.q, 10)), k - 1)

RECURSIVE BigMulPow10(_, _)
BigMulPow10(a, k) == IF k = 0 THEN a ELSE BigMulPow10(BigMulSmall(a, 10), k - 1)

RoundQuotient(s, qs, e) == RoundD(s, qs.q, e, qs.sticky)

\* the Number nearest to (-1)^s * mant * 10^x (decimal literal, parseFloat)
DFromDecimalBig(s, mant, x) ==
  IF x >= 0 THEN RoundD(s, BigMulPow10(mant, x), 0, FALSE)
  ELSE RoundQuotient(s,
         BigDivPow10([q |-> BigShl(mant, 60 - 4 * x), sticky |-> FALSE], 0 - x),
         4 * x - 60)

\* the Number of the decimal literal mant / 10^k, e.g. Dec(115, 2) is 1.15
Dec(mant, k) ==
  DFromDecimalBig(IF mant < 0 THEN 1 ELSE 0,
                  BigFromInt(IF mant < 0 THEN 0 - mant ELSE mant), 0 - k)

DNeg(x) == IF x.nan \/ x.m = <<>> THEN x ELSE [x EXCEPT !.s = 1 - x.s]

\* -1, 0, 1 comparing magnitudes of finite Numbers
DCmpMag(x, y) ==
  IF x.m = <<>> THEN (IF y.m = <<>> THEN 0 ELSE -1)
  ELSE IF y.m = <<>> THEN 1
  ELSE IF x.e # y.e THEN (IF x.e < y.e THEN -1 ELSE 1)
  ELSE BigCmp(x.m, y.m)

DLessCmp(x, y, c) ==
  IF x.s # y.s THEN x.s = 1 /\ (x.m # <<>> \/ y.m # <<>>)
  ELSE IF x.s = 0 THEN c < 0
  ELSE c > 0

\* x < y (false when either is NaN)
DLess(x, y) == ~x.nan /\ ~y.nan /\ DLessCmp(x, y, DCmpMag(x, y))

DGreater(x, y) == DLess(y, x)
\* x >= y (false when either is NaN)
DGeq(x, y) == ~x.nan /\ ~y.nan /\ ~DLess(x, y)

\* the sum of two aligned magnitudes with their signs; c compares them
DAddMag(sx, mx, sy, my, e, c) ==
  IF sx # sy /\ c = 0 THEN Zero
  ELSE RoundD(IF sx = sy \/ c > 0 THEN sx ELSE sy,
              IF sx = sy THEN BigAdd(mx, my)
              ELSE IF c > 0 THEN BigSub(mx, my)
              ELSE BigSub(my, mx),
              e, FALSE)

DAddAligned(sx, mx, sy, my, e) == DAddMag(sx, mx, sy, my, e, BigCmp(mx, my))

DAddAt(x, y, e) ==
  DAddAligned(x.s, BigShl(x.m, x.e - e), y.s, BigShl(y.m, y.e - e), e)

\* x + y
DAdd(x, y) ==
  IF x.nan \/ y.nan THEN NaN
  ELSE IF x.m = <<>> THEN y
  ELSE IF y.m = <<>> THEN x
  ELSE DAddAt(x, y, IF x.e < y.e THEN x.e ELSE y.e)

\* x - y
DSub(x, y) == DAdd(x, DNeg(y))

\* x * y
DMul(x, y) ==
  IF x.nan \/ y.nan THEN NaN
  ELSE IF x.m = <<>> \/ y.m = <<>> THEN Zero
  ELSE RoundD((x.s + y.s) % 2, BigMul(x.m, y.m), x.e + y.e, FALSE)

DDivQuotient(s, qr, e) == RoundD(s, qr.q, e, qr.r # 0)

\* x / n for an integer-valued divisor 0 < n <= 65536 (an array length)
DDivInt(x, n) ==
  IF x.nan THEN NaN
  ELSE IF x.m = <<>> THEN Zero
  ELSE DDivQuotient(x.s, BigDivSmall(BigShl(x.m, 20), n), x.e - 20)

\* ip is the integer part of |x|, c compares its fraction with one half
MathRoundUp(s, ip, c) ==
  RoundD(s,
         IF (s = 0 /\ c >= 0) \/ (s = 1 /\ c > 0) THEN BigAdd(ip, BigOne) ELSE ip,
         0, FALSE)

MathRoundFrac(x, k, ip) == MathRoundUp(x.s, ip, BigHalfCmp(x.m, k, ip))

\* Math.round(x): nearest integer, ties towards +Infinity
MathRound(x) ==
  IF x.nan THEN NaN
  ELSE IF x.m = <<>> THEN Zero
  ELSE IF x.e >= 0 THEN x
  ELSE MathRoundFrac(x, 0 - x.e, BigShr(x.m, 0 - x.e))

\* Math.min(x, y)
MathMin(x, y) ==
  IF x.nan \/ y.nan THEN NaN ELSE IF DLess(y, x) THEN y ELSE x

\* x is an integer-valued finite Number
DIsInt(x) ==
  /\ ~x.nan
  /\ \/ x.m = <<>>
     \/ x.e >= 0
     \/ BigShl(BigShr(x.m, 0 - x.e), 0 - x.e) = x.m

DSigned(s, mag) == IF s = 1 THEN 0 - mag ELSE mag

\* the integer an integer-valued Number of magnitude below 2^31 stands for
DToInt(x) ==
  DSigned(x.s, IF x.m = <<>> THEN 0
               ELSE IF x.e >= 0 THEN BigToInt(BigShl(x.m, x.e))
               ELSE BigToInt(BigShr(x.m, 0 - x.e)))

(***************************************************************************)
(* ECMAScript strings: sequences of one-character strings.                 *)
(***************************************************************************)
Digits == {"0", "1", "2", "3", "4", "5", "6", "7", "8", "9"}

DigitVal(c) ==
  CASE c = "0" -> 0 [] c = "1" -> 1 [] c = "2" -> 2 [] c = "3" -> 3
    [] c = "4" -> 4 [] c = "5" -> 5 [] c = "6" -> 6 [] c = "7" -> 7
    [] c = "8" -> 8 [] c = "9" -> 9

\* StrWhiteSpaceChar / LineTerminator, as far as the modelled alphabet has them
WhiteSpace == {" ", "\t", "\n"}

Upper == <<"A", "B", "C", "D", "E", "F", "G", "H", "I", "J", "K", "L", "M",
           "N", "O", "P", "Q", "R", "S", "T", "U", "V", "W", "X", "Y", "Z">>
Lower == <<"a", "b", "c", "d", "e", "f", "g", "h", "i", "j", "k", "l", "m",
           "n", "o", "p", "q", "r", "s", "t", "u", "v", "w", "x", "y", "z">>

LowerChar(c) ==
  IF \E i \in 1..Len(Upper) : Upper[i] = c
  THEN Lower[CHOOSE i \in 1..Len(Upper) : Upper[i] = c]
  ELSE c

\* String.prototype.toLowerCase
ToLowerCase(str) == [i \in 1..Len(str) |-> LowerChar(str[i])]

\* String.prototype.startsWith
StartsWith(str, pre) ==
  Len(pre) <= Len(str) /\ SubSeq(str, 1, Len(pre)) = pre

\* String.prototype.includes
Includes(str, sub) ==
  \E i \in 1..(Len(str) - Len(sub) + 1) : SubSeq(str, i, i + Len(sub) - 1) = sub

\* String.prototype.substring(from), from counted from 0
Substring(str, from) == SubSeq(str, from + 1, Len(str))

\* str.split(sep)[0] for a one-character separator
SplitFirst(str, sep) ==
  IF \E i \in 1..Len(str) : str[i] = sep
  THEN SubSeq(str, 1, (CHOOSE i \in 1..Len(str) :
                         str[i] = sep /\ \A j \in 1..(i - 1) : str[j] # sep) - 1)
  ELSE str

\* first index >= i whose character is not in cls (Len(str) + 1 if none)
RECURSIVE RunEnd(_, _, _)
RunEnd(str, i, cls) ==
  IF i <= Len(str) /\ str[i] \in cls THEN RunEnd(str, i + 1, cls) ELSE i

RECURSIVE BigFromDigits(_, _)
BigFromDigits(ds, acc) ==
  IF ds = <<>> THEN acc
  ELSE BigFromDigits(Tail(ds), BigAdd(BigMulSmall(acc, 10), BigFromInt(DigitVal(Head(ds)))))

RECURSIVE IntFromDigits(_, _)
IntFromDigits(ds, acc) ==
  IF ds = <<>> THEN acc ELSE IntFromDigits(Tail(ds), 10 * acc + DigitVal(Head(ds)))

\* the decimal literal with integer digits int, fraction digits frac and
\* exponent exp
ParseLiteral(neg, int, frac, exp) ==
  IF Len(int) + Len(frac) = 0 THEN NaN
  ELSE DFromDecimalBig(IF neg THEN 1 ELSE 0, BigFromDigits(int \o frac, <<>>),
                       exp - Len(frac))

\* the exponent digits str[k1..k2-1], negative if eneg; none gives 0
ParseExponentDigits(str, neg, int, frac, eneg, k1, k2) ==
  ParseLiteral(neg, int, frac,
               IF eneg THEN 0 - IntFromDigits(SubSeq(str, k1, k2 - 1), 0)
               ELSE IntFromDigits(SubSeq(str, k1, k2 - 1), 0))

\* an exponent part at i3: e or E, an optional sign, digits
ParseExponentSign(str, neg, int, frac, i3, esign) ==
  ParseExponentDigits(str, neg, int, frac,
                      esign /\ str[i3 + 1] = "-",
                      IF esign THEN i3 + 2 ELSE i3 + 1,
                      RunEnd(str, IF esign THEN i3 + 2 ELSE i3 + 1, Digits))

ParseExponent(str, neg, int, frac, i3) ==
  IF i3 <= Len(str) /\ str[i3] \in {"e", "E"}
  THEN ParseExponentSign(str, neg, int, frac, i3,
                         i3 + 1 <= Len(str) /\ str[i3 + 1] \in {"+", "-"})
  ELSE ParseLiteral(neg, int, frac, 0)

\* the fraction digits are str[i2+1..i3-1] if str[i2] is the point
ParseFractionDigits(str, neg, i1, i2, hasDot, i3) ==
  ParseExponent(str, neg, SubSeq(str, i1, i2 - 1),
                IF hasDot THEN SubSeq(str, i2 + 1, i3 - 1) ELSE <<>>, i3)

ParseFraction(str, neg, i1, i2, hasDot) ==
  ParseFractionDigits(str, neg, i1, i2, hasDot,
                      IF hasDot THEN RunEnd(str, i2 + 1, Digits) ELSE i2)

\* the integer digits are str[i1..i2-1]
ParseIntegerDigits(str, neg, i1, i2) ==
  ParseFraction(str, neg, i1, i2, i2 <= Len(str) /\ str[i2] = ".")

ParseSigned(str, i0, signed) ==
  ParseIntegerDigits(str, signed /\ str[i0] = "-",
                     IF signed THEN i0 + 1 ELSE i0,
                     RunEnd(str, IF signed THEN i0 + 1 ELSE i0, Digits))

\* the literal starts at i0, after the leading white space
ParseTrimmed(str, i0) ==
  ParseSigned(str, i0, i0 <= Len(str) /\ str[i0] \in {"+", "-"})

\* parseFloat(str): the Number of the longest prefix that is a decimal
\* literal (leading white space skipped), NaN if there is none.  The
\* literal "Infinity" is outside the modelled alphabet.
ParseFloat(str) == ParseTrimmed(str, RunEnd(str, 1, WhiteSpace))

(***************************************************************************)
(* Outbreak scorer and category labeler (risk-calculation.ts).             *)
(***************************************************************************)
One == DFromInt(1)
Half == Dec(5, 1)
Hundred == DFromInt(100)

SeverityNames ==
  {"Diarrhea", "Vomiting", "Fever", "Abdominal pain", "Skin rashes", "Other"}

\* property names every object literal inherits from Object.prototype
ObjectPrototypeNames ==
  {"constructor", "toString", "toLocaleString", "valueOf", "hasOwnProperty",
   "isPrototypeOf", "propertyIsEnumerable", "__proto__"}

\* severityMultipliers[symptom]: an own Number, an inherited function or
\* object, or undefined
severityMultipliers(symptom) ==
  CASE symptom = "Diarrhea"       -> [kind |-> "number", num |-> Dec(12, 1)]
    [] symptom = "Vomiting"       -> [kind |-> "number", num |-> Dec(13, 1)]
    [] symptom = "Fever"          -> [kind |-> "number", num |-> Dec(14, 1)]
    [] symptom = "Abdominal pain" -> [kind |-> "number", num |-> Dec(11, 1)]
    [] symptom = "Skin rashes"    -> [kind |-> "number", num |-> Dec(115, 2)]
    [] symptom = "Other"          -> [kind |-> "number", num |-> Dec(11, 1)]
    [] symptom \in ObjectPrototypeNames -> [kind |-> "object", num |-> NaN]
    [] OTHER                      -> [kind |-> "undefined", num |-> NaN]

\* ToBoolean of a looked-up property
Truthy(v) ==
  \/ v.kind = "object"
  \/ v.kind = "number" /\ ~IsNaN(v.num) /\ ~IsZero(v.num)

\* ToNumber of a looked-up property (a function or plain object gives NaN)
ToNumber(v) == IF v.kind = "number" THEN v.num ELSE NaN

baseRiskOf(affectedCount) ==
  IF affectedCount <= 1 THEN 10
  ELSE IF affectedCount <= 5 THEN 25
  ELSE IF affectedCount <= 15 THEN 40
  ELSE IF affectedCount <= 30 THEN 55
  ELSE IF affectedCount <= 50 THEN 65
  ELSE IF affectedCount <= 100 THEN 75
  ELSE 83

\* the body of the forEach callback, v being severityMultipliers[symptom]
addSymptom(symptomMultiplier, v) ==
  IF Truthy(v)
  THEN DAdd(symptomMultiplier, DMul(DSub(ToNumber(v), One), Half))
  ELSE symptomMultiplier

\* the symptoms.forEach loop, symptomMultiplier being the accumulator
RECURSIVE symptomMultiplierOf(_, _)
symptomMultiplierOf(symptoms, symptomMultiplier) ==
  IF symptoms = <<>> THEN symptomMultiplier
  ELSE symptomMultiplierOf(Tail(symptoms),
         addSymptom(symptomMultiplier, severityMultipliers(Head(symptoms))))

\* calculateRiskLevel without the cap at 100
calculateRiskLevel_Uncapped(affectedCount, symptoms) ==
  MathRound(DMul(DFromInt(baseRiskOf(affectedCount)),
                 symptomMultiplierOf(symptoms, One)))

calculateRiskLevel(affectedCount, symptoms) ==
  LET baseRisk          == DFromInt(baseRiskOf(affectedCount))
      symptomMultiplier == symptomMultiplierOf(symptoms, One)
  IN  MathMin(Hundred, MathRound(DMul(baseRisk, symptomMultiplier)))

\* getRiskCategory with "> 70" for ">= 70"
getRiskCategory_Above70(riskPercentage) ==
  IF DGreater(riskPercentage, DFromInt(70)) THEN "High Risk"
  ELSE IF DGeq(riskPercentage, DFromInt(40)) THEN "Medium Risk"
  ELSE "Low Risk"

getRiskCategory(riskPercentage) ==
  IF DGeq(riskPercentage, DFromInt(70)) THEN "High Risk"
  ELSE IF DGeq(riskPercentage, DFromInt(40)) THEN "Medium Risk"
  ELSE "Low Risk"

(***************************************************************************)
(* Critical-range evaluator, parameter classifier and kit aggregator       *)
(* (testing-analysis).  A value is string | number: kind says which, and   *)
(* text is the string itself, or for a number its Number::toString         *)
(* literal; the Number is then the one that literal parses to (a decimal   *)
(* of at most 15 significant digits and its Number determine each other).  *)
(***************************************************************************)
StrValue(text) == [kind |-> "string", text |-> text]
NumValue(text) == [kind |-> "number", text |-> text]

\* value.toString()
ValueToString(value) == value.text

\* a string that does not parse counts as 0
nullIfNaN_Zero(parsed) ==
  IF IsNaN(parsed) THEN [null |-> FALSE, num |-> Zero]
  ELSE [null |-> FALSE, num |-> parsed]

\* isNaN(parsed) ? null : parsed
nullIfNaN(parsed) ==
  IF IsNaN(parsed) THEN [null |-> TRUE, num |-> NaN]
  ELSE [null |-> FALSE, num |-> parsed]

\* number | null: a number is returned as it is (NaN included), a string
\* is parsed
parseNumericValue(value) ==
  IF value.kind = "number" THEN [null |-> FALSE, num |-> ParseFloat(value.text)]
  ELSE nullIfNaN(ParseFloat(value.text))

STR_presence == <<"p", "r", "e", "s", "e", "n", "c", "e">>
STR_present == <<"p", "r", "e", "s", "e", "n", "t">>
STR_positive == <<"p", "o", "s", "i", "t", "i", "v", "e">>
STR_yes == <<"y", "e", "s">>
STR_1 == <<"1">>
STR_true == <<"t", "r", "u", "e">>
STR_lt == <<"<">>
STR_gt == <<">">>

DigitsAndDot == Digits \cup {"."}

\* critical_range.match(/<([0-9.]+)|>([0-9.]+)/g); no match (null) is <<>>
RECURSIVE MatchClauses(_, _)
MatchClauses(str, i) ==
  IF i > Len(str) THEN <<>>
  ELSE IF str[i] \in {"<", ">"} /\ i + 1 <= Len(str) /\ str[i + 1] \in DigitsAndDot
  THEN LET j == RunEnd(str, i + 1, DigitsAndDot)
       IN  <<SubSeq(str, i, j - 1)>> \o MatchClauses(str, j)
  ELSE MatchClauses(str, i + 1)

\* the callback of matches.some, threshold being
\* parseFloat(match.substring(1))
clauseHolds(match, numValue, threshold) ==
  IF StartsWith(match, STR_lt) THEN DLess(numValue, threshold)
  ELSE IF StartsWith(match, STR_gt) THEN DGreater(numValue, threshold)
  ELSE FALSE

\* matches.every(...) for matches.some(...)
someClauseHolds_Every(matches, numValue) ==
  IF matches # <<>>
  THEN \A k \in 1..Len(matches) :
         clauseHolds(matches[k], numValue, ParseFloat(Substring(matches[k], 1)))
  ELSE FALSE

\* matches.some(...), false for null
someClauseHolds(matches, numValue) ==
  IF matches # <<>>
  THEN \E k \in 1..Len(matches) :
         clauseHolds(matches[k], numValue, ParseFloat(Substring(matches[k], 1)))
  ELSE FALSE

\* the one-sided branches with >= and <= for > and <
oneSided_Inclusive(critical_range, numValue, threshold) ==
  IF StartsWith(critical_range, STR_gt) THEN DGeq(numValue, threshold)
  ELSE IF StartsWith(critical_range, STR_lt) THEN DGeq(threshold, numValue)
  ELSE FALSE

\* the one-sided branches, threshold being
\* parseFloat(critical_range.substring(1).split(' ')[0])
oneSided(critical_range, numValue, threshold) ==
  IF StartsWith(critical_range, STR_gt) THEN DGreater(numValue, threshold)
  ELSE IF StartsWith(critical_range, STR_lt) THEN DLess(numValue, threshold)
  ELSE FALSE

\* "Handle numeric ranges", pn being parseNumericValue(value)
numericRange(critical_range, pn) ==
  IF pn.null THEN FALSE
  ELSE IF Includes(critical_range, STR_lt) /\ Includes(critical_range, STR_gt)
  THEN someClauseHolds(MatchClauses(critical_range, 1), pn.num)
  ELSE oneSided(critical_range, pn.num,
                ParseFloat(SplitFirst(Substring(critical_range, 1), " ")))

\* "Handle presence/absence tests", val being value.toString().toLowerCase()
presenceTest(val) ==
  val = STR_present \/ val = STR_positive \/ val = STR_yes
  \/ val = STR_1 \/ val = STR_true

\* isInCriticalRange looking for "presence" in the expression as written
isInCriticalRange_CaseSensitive(parameter, value) ==
  IF Includes(parameter.critical_range, STR_presence)
  THEN presenceTest(ToLowerCase(ValueToString(value)))
  ELSE numericRange(parameter.critical_range, parseNumericValue(value))

isInCriticalRange(parameter, value) ==
  IF Includes(ToLowerCase(parameter.critical_range), STR_presence)
  THEN presenceTest(ToLowerCase(ValueToString(value)))
  ELSE numericRange(parameter.critical_range, parseNumericValue(value))

\* the classification with "low" for a confidence score below 0.5
riskLevelOf_LowBelowHalf(isInCritical, confidence) ==
  IF ~isInCritical THEN "low"
  ELSE IF DGeq(confidence, Dec(8, 1)) THEN "high"
  ELSE IF DGeq(confidence, Dec(5, 1)) THEN "medium"
  ELSE "low"

\* the classification, isInCritical being isInCriticalRange(parameter, value)
riskLevelOf(isInCritical, confidence) ==
  IF ~isInCritical THEN "low"
  ELSE IF DGeq(confidence, Dec(8, 1)) THEN "high"
  ELSE IF DGeq(confidence, Dec(5, 1)) THEN "medium"
  ELSE "medium"

\* getRiskLevel looking at the confidence before the range
getRiskLevel_ConfidenceFirst(parameter, value) ==
  IF DGeq(parameter.confidence_score, Dec(8, 1)) THEN "high"
  ELSE riskLevelOf(isInCriticalRange(parameter, value), parameter.confidence_score)

getRiskLevel(parameter, value) ==
  riskLevelOf(isInCriticalRange(parameter, value), parameter.confidence_score)

\* parameterValues.find(pv => pv.name === parameter.name): index of the
\* first match, 0 for undefined
findValue(parameterValues, name) ==
  IF \E i \in 1..Len(parameterValues) : parameterValues[i].name = name
  THEN CHOOSE i \in 1..Len(parameterValues) :
         /\ parameterValues[i].name = name
         /\ \A j \in 1..(i - 1) : parameterValues[j].name # name
  ELSE 0

\* results.push(...) and the three counters
pushResult(acc, parameter, value, isInCritical, riskLevel) ==
  [results |-> Append(acc.results,
                      [parameter |-> parameter, value |-> value,
                       isInCriticalRange |-> isInCritical, riskLevel |-> riskLevel]),
   totalConfidence |-> DAdd(acc.totalConfidence, parameter.confidence_score),
   highRiskCount |-> acc.highRiskCount + (IF riskLevel = "high" THEN 1 ELSE 0),
   mediumRiskCount |-> acc.mediumRiskCount + (IF riskLevel = "medium" THEN 1 ELSE 0)]

\* the forEach callback recording a parameter without a submitted value as
\* a safe reading
analyzeParameter_PushMissing(acc, parameter, parameterValues, idx) ==
  IF idx = 0 THEN pushResult(acc, parameter, StrValue(<<>>), FALSE, "low")
  ELSE pushResult(acc, parameter, parameterValues[idx].value,
                  isInCriticalRange(parameter, parameterValues[idx].value),
                  getRiskLevel(parameter, parameterValues[idx].value))

\* the body of the forEach callback, idx being the place of paramValue in
\* parameterValues (0: none)
analyzeParameter(acc, parameter, parameterValues, idx) ==
  IF idx = 0 THEN acc
  ELSE pushResult(acc, parameter, parameterValues[idx].value,
                  isInCriticalRange(parameter, parameterValues[idx].value),
                  getRiskLevel(parameter, parameterValues[idx].value))

\* the kit.parameters.forEach loop from parameter i on; acc holds results,
\* totalConfidence, highRiskCount and mediumRiskCount
RECURSIVE analyzeLoop(_, _, _, _)
analyzeLoop(parameters, parameterValues, i, acc) ==
  IF i > Len(parameters) THEN acc
  ELSE analyzeLoop(parameters, parameterValues, i + 1,
         analyzeParameter(acc, parameters[i], parameterValues,
                          findValue(parameterValues, parameters[i].name)))

\* the returned record with the medium count looked at before the high one
makeKitTestResult_MediumFirst(kit, acc) ==
  [kit |-> kit,
   results |-> acc.results,
   overallRisk |-> IF acc.mediumRiskCount > 0 THEN "medium"
                   ELSE IF acc.highRiskCount > 0 THEN "high"
                   ELSE "low",
   confidence |-> IF Len(acc.results) > 0
                  THEN DDivInt(acc.totalConfidence, Len(acc.results))
                  ELSE Zero]

\* the returned record with the confidence averaged over all kit parameters
makeKitTestResult_MeanOverKit(kit, acc) ==
  [kit |-> kit,
   results |-> acc.results,
   overallRisk |-> IF acc.highRiskCount > 0 THEN "high"
                   ELSE IF acc.mediumRiskCount > 0 THEN "medium"
                   ELSE "low",
   confidence |-> IF Len(acc.results) > 0
                  THEN DDivInt(acc.totalConfidence, Len(kit.parameters))
                  ELSE Zero]

\* "Calculate overall risk", the average confidence and the returned object
makeKitTestResult(kit, acc) ==
  [kit |-> kit,
   results |-> acc.results,
   overallRisk |-> IF acc.highRiskCount > 0 THEN "high"
                   ELSE IF acc.mediumRiskCount > 0 THEN "medium"
                   ELSE "low",
   confidence |-> IF Len(acc.results) > 0
                  THEN DDivInt(acc.totalConfidence, Len(acc.results))
                  ELSE Zero]

analyzeTestResults(kit, parameterValues) ==
  makeKitTestResult(kit,
    analyzeLoop(kit.parameters, parameterValues, 1,
                [results |-> <<>>, totalConfidence |-> Zero,
                 highRiskCount |-> 0, mediumRiskCount |-> 0]))

(***************************************************************************)
(* Kit-result normalizer (risk-calculation.ts).  The argument is typed     *)
(* any: hasResults is false for a missing argument or results field, and   *)
(* a missing confidence is NaN (ToNumber(undefined)).                      *)
(***************************************************************************)

\* the critical count taken without the filter
criticalCountOf_All(results) == Len(results)

criticalCountOf(results) ==
  Cardinality({i \in 1..Len(results) : results[i].isInCriticalRange})

\* the switch with the baselines of "high" and "medium" exchanged
tierBaseRisk_Swapped(overallRisk) ==
  CASE overallRisk = "high"   -> 45
    [] overallRisk = "medium" -> 75
    [] overallRisk = "low"    -> 15
    [] OTHER                  -> 30

tierBaseRisk(overallRisk) ==
  CASE overallRisk = "high"   -> 75
    [] overallRisk = "medium" -> 45
    [] overallRisk = "low"    -> 15
    [] OTHER                  -> 30

\* calculateWaterTestRisk with 1 + confidence * 0.2 for the confidence
\* adjustment
calculateWaterTestRisk_ConfidenceRaises(testResults) ==
  IF ~testResults.hasResults THEN Zero
  ELSE MathMin(Hundred,
         MathRound(DMul(DMul(DFromInt(tierBaseRisk(testResults.overallRisk)),
                             DAdd(One, DMul(IF Len(testResults.results) > 0
                                            THEN DDivInt(DFromInt(criticalCountOf(testResults.results)),
                                                         Len(testResults.results))
                                            ELSE Zero, Half))),
                        DAdd(One, DMul(testResults.confidence, Dec(2, 1))))))

\* calculateWaterTestRisk without the guard on a missing results array
calculateWaterTestRisk_NoGuard(testResults) ==
  MathMin(Hundred,
    MathRound(DMul(DMul(DFromInt(tierBaseRisk(testResults.overallRisk)),
                        DAdd(One, DMul(IF Len(testResults.results) > 0
                                       THEN DDivInt(DFromInt(criticalCountOf(testResults.results)),
                                                    Len(testResults.results))
                                       ELSE Zero, Half))),
                   DAdd(One, DMul(DSub(One, testResults.confidence), Dec(2, 1))))))

calculateWaterTestRisk(testResults) ==
  IF ~testResults.hasResults THEN Zero
  ELSE LET results         == testResults.results
           confidence      == testResults.confidence
           criticalCount   == criticalCountOf(results)
           totalParameters == Len(results)
           baseRisk        == DFromInt(tierBaseRisk(testResults.overallRisk))
           criticalRatio   == IF totalParameters > 0
                              THEN DDivInt(DFromInt(criticalCount), totalParameters)
                              ELSE Zero
           criticalMultiplier   == DAdd(One, DMul(criticalRatio, Half))
           confidenceAdjustment == DAdd(One, DMul(DSub(One, confidence), Dec(2, 1)))
       IN  MathMin(Hundred,
             MathRound(DMul(DMul(baseRisk, criticalMultiplier), confidenceAdjustment)))

\* a KitTestResult handed to calculateWaterTestRisk
AsTestResults(ktr) ==
  [hasResults |-> TRUE, results |-> ktr.results,
   overallRisk |-> ktr.overallRisk, confidence |-> ktr.confidence]

(***************************************************************************)
(* The kit catalog (shared/data/testing-kits); pathogen_risk and           *)
(* associated_diseases are not read by the engine and are left out.        *)
(***************************************************************************)
Param(name, range, score100) ==
  [name |-> name, critical_range |-> range, confidence_score |-> Dec(score100, 2)]

RANGE_pH == <<"<", "6", ".", "5", " ", "o", "r", " ", ">", "8", ".", "5">>
RANGE_Turbidity == <<">", "1", " ", "N", "T", "U">>
RANGE_Chlorine == <<"<", "0", ".", "2", " ", "m", "g", "/", "L">>
RANGE_Nitrate == <<">", "4", "5", " ", "m", "g", "/", "L">>
RANGE_Fluoride == <<">", "1", ".", "5", " ", "m", "g", "/", "L">>
RANGE_Iron == <<">", "0", ".", "3", " ", "m", "g", "/", "L">>
RANGE_Hardness == <<">", "1", "5", "0", " ", "m", "g", "/", "L">>
RANGE_Alkalinity == <<">", "2", "0", "0", " ", "m", "g", "/", "L">>
RANGE_Presence100 == <<"P", "r", "e", "s", "e", "n", "c", "e", " ", "i", "n", " ", "1", "0", "0", " ", "m", "L">>
RANGE_PresenceVial == <<"P", "r", "e", "s", "e", "n", "c", "e", " ", "i", "n", " ", "v", "i", "a", "l">>

testingKits ==
  << [kit |-> "Field Test Kit (FTK)",
      parameters |-> << Param("pH", RANGE_pH, 65),
                        Param("Turbidity", RANGE_Turbidity, 85),
                        Param("Chlorine", RANGE_Chlorine, 90),
                        Param("Nitrate", RANGE_Nitrate, 70),
                        Param("Fluoride", RANGE_Fluoride, 30),
                        Param("Iron", RANGE_Iron, 60),
                        Param("Hardness", RANGE_Hardness, 40),
                        Param("Alkalinity", RANGE_Alkalinity, 45) >>],
     [kit |-> "Bacteriological Field Test Kit",
      parameters |-> << Param("Coliform", RANGE_Presence100, 95),
                        Param("E. coli", RANGE_Presence100, 98) >>],
     [kit |-> "Portable Water Testing Kits (PWTK)",
      parameters |-> << Param("pH", RANGE_pH, 65),
                        Param("Chlorine", RANGE_Chlorine, 90),
                        Param("Iron", RANGE_Iron, 60) >>],
     [kit |-> "H2S Strip Test (Low-Cost Vial)",
      parameters |-> << Param("H2S-producing bacteria", RANGE_PresenceVial, 88) >>] >>

(***************************************************************************)
(* State: the engine is stateless, so the state is the engine call in      *)
(* progress: the function called, its arguments and what it returned.      *)
(* A caller makes one call from the idle state (fn = "none"), consumes the *)
(* result (Return) and is idle again.  A returned string or boolean is     *)
(* held in a one-field record, [string |-> s] or [boolean |-> b], so that  *)
(* the results of different calls are comparable values.                   *)
(***************************************************************************)
VARIABLES fn, args, ret

\* The state of the WaterKits page (its useState cells; testResultsState is
\* the cell testResults), the pending
\* debounce timer of its effect and the validation requests in flight.
VARIABLES currentStep, selectedKit, testResultsState, location, needsCoordinates,
          locationValidation, latitude, longitude, timeoutId, fetches

wizardVars == <<currentStep, selectedKit, testResultsState, location,
                needsCoordinates, locationValidation, latitude, longitude,
                timeoutId, fetches>>

\* The state of the server: the collections of the database, the last
\* ObjectId it handed out, and the requests received with the position of
\* each handler.
VARIABLES db, lastObjectId, requests

serverVars == <<db, lastObjectId, requests>>

vars == <<fn, args, ret, wizardVars, serverVars>>

\* longest symptom list submitted
MaxSymptoms == 2
\* largest affected count submitted
MaxCount == 200
\* how far below 0 and above 100 the labelled percentages reach
PctSlack == 20
\* longest list of parameter values submitted for a part of a kit
MaxSubmitted == 2
\* longest results array handed to calculateWaterTestRisk directly
MaxResults == 3

\* both sides of every bracket boundary of calculateRiskLevel
AffectedCounts == {0, 1, 2, 5, 6, 15, 16, 30, 31, 50, 51, 100, 101, MaxCount}

\* the six names of the severity table, a name nobody knows, and a name
\* that Object.prototype defines
SymptomVocabulary == SeverityNames \cup {"Headache", "toString"}

SymptomLists == UNION {[1..n -> SymptomVocabulary] : n \in 0..MaxSymptoms}

Percentages == (0 - PctSlack)..(100 + PctSlack)

\* range expressions tried: the catalog's, and variants of each shape
RangeExprs ==
  { <<"<", "6", ".", "5", " ", "o", "r", " ", ">", "8", ".", "5">>,
    <<">", "1", " ", "N", "T", "U">>,
    <<"<", "0", ".", "2", " ", "m", "g", "/", "L">>,
    <<">", "4", "5", " ", "m", "g", "/", "L">>,
    <<">", "1", ".", "5", " ", "m", "g", "/", "L">>,
    <<">", "0", ".", "3", " ", "m", "g", "/", "L">>,
    <<">", "1", "5", "0", " ", "m", "g", "/", "L">>,
    <<">", "2", "0", "0", " ", "m", "g", "/", "L">>,
    <<"P", "r", "e", "s", "e", "n", "c", "e", " ", "i", "n", " ", "1", "0", "0", " ", "m", "L">>,
    <<"P", "r", "e", "s", "e", "n", "c", "e", " ", "i", "n", " ", "v", "i", "a", "l">>,
    <<"P", "R", "E", "S", "E", "N", "C", "E", " ", ">", "0">>,
    <<"E", ".", " ", "c", "o", "l", "i", " ", "p", "r", "e", "s", "e", "n", "c", "e", " ", "<", "1", " ", "o", "r", " ", ">", "0">>,
    <<">", "8", ".", "5", " ", "o", "r", " ", "<", "6", ".", "5">>,
    <<"<", "2", " ", "o", "r", " ", ">", "1">>,
    <<"<", "5", " ", ">", ".">>,
    <<"<", " ", "6", ".", "5", " ", "o", "r", " ", ">", " ", "8", ".", "5">>,
    <<"m", "g", "/", "L">>,
    <<>>,
    <<"p", "H", " ", "<", "6", ".", "5">>,
    <<"6", ".", "5", "-", "8", ".", "5">>,
    <<">", "a", "b", "c">>,
    <<">", " ", "5", " ", "m", "g", "/", "L">>,
    <<">", "1">>,
    <<"<", "0", ".", "2">>,
    <<">", "1", "e", "2", " ", "m", "g", "/", "L">> }

\* values tried: strings and numbers (a number by its toString literal)
Values ==
  { StrValue(<<"p", "r", "e", "s", "e", "n", "t">>),
    StrValue(<<"P", "r", "e", "s", "e", "n", "t">>),
    StrValue(<<"P", "O", "S", "I", "T", "I", "V", "E">>),
    StrValue(<<"y", "e", "s">>),
    StrValue(<<"1">>),
    StrValue(<<"t", "r", "u", "e">>),
    StrValue(<<"T", "R", "U", "E">>),
    StrValue(<<"a", "b", "s", "e", "n", "t">>),
    StrValue(<<"n", "e", "g", "a", "t", "i", "v", "e">>),
    StrValue(<<"0">>),
    StrValue(<<"f", "a", "l", "s", "e">>),
    StrValue(<<"n", "o">>),
    StrValue(<<"a", "b", "c">>),
    StrValue(<<>>),
    StrValue(<<" ", "p", "r", "e", "s", "e", "n", "t">>),
    StrValue(<<"1", ".", "0">>),
    StrValue(<<"7", ".", "0">>),
    StrValue(<<"6", ".", "0">>),
    StrValue(<<"9", ".", "0">>),
    StrValue(<<"6", ".", "5">>),
    StrValue(<<"8", ".", "5">>),
    StrValue(<<"0", ".", "1">>),
    StrValue(<<"2", "a", "b", "c">>),
    StrValue(<<"-", "1">>),
    NumValue(<<"1">>),
    NumValue(<<"0">>),
    NumValue(<<"-", "1">>),
    NumValue(<<"0", ".", "1">>),
    NumValue(<<"0", ".", "2">>),
    NumValue(<<"0", ".", "3">>),
    NumValue(<<"0", ".", "4">>),
    NumValue(<<"0", ".", "5">>),
    NumValue(<<"1", ".", "5">>),
    NumValue(<<"1", ".", "6">>),
    NumValue(<<"2">>),
    NumValue(<<"6">>),
    NumValue(<<"6", ".", "5">>),
    NumValue(<<"7">>),
    NumValue(<<"8", ".", "5">>),
    NumValue(<<"9">>),
    NumValue(<<"4", "5">>),
    NumValue(<<"4", "6">>),
    NumValue(<<"1", "0", "0">>),
    NumValue(<<"1", "0", "1">>),
    NumValue(<<"1", "5", "0">>),
    NumValue(<<"1", "5", "1">>),
    NumValue(<<"2", "0", "0">>),
    NumValue(<<"2", "0", "1">>),
    NumValue(<<"N", "a", "N">>) }

\* confidence scores tried, in hundredths: the catalog's and both sides of
\* the 0.5 and 0.8 thresholds
Scores100 == {0, 30, 49, 50, 65, 79, 80, 85, 100}

CatalogRanges ==
  UNION {{testingKits[i].parameters[j].critical_range :
            j \in 1..Len(testingKits[i].parameters)} : i \in 1..Len(testingKits)}

\* a non-critical and a critical reading of each catalog parameter, as the
\* parameter form submits them (numbers for numeric ranges, the selected
\* option for presence tests)
Readings(parameter) ==
  CASE parameter.name = "pH"         -> {NumValue(<<"7">>), NumValue(<<"9">>)}
    [] parameter.name = "Turbidity"  -> {NumValue(<<"1">>), NumValue(<<"2">>)}
    [] parameter.name = "Chlorine"   -> {NumValue(<<"0", ".", "5">>), NumValue(<<"0", ".", "1">>)}
    [] parameter.name = "Nitrate"    -> {NumValue(<<"4", "5">>), NumValue(<<"4", "6">>)}
    [] parameter.name = "Fluoride"   -> {NumValue(<<"1", ".", "5">>), NumValue(<<"1", ".", "6">>)}
    [] parameter.name = "Iron"       -> {NumValue(<<"0", ".", "3">>), NumValue(<<"0", ".", "4">>)}
    [] parameter.name = "Hardness"   -> {NumValue(<<"1", "5", "0">>), NumValue(<<"1", "5", "1">>)}
    [] parameter.name = "Alkalinity" -> {NumValue(<<"2", "0", "0">>), NumValue(<<"2", "0", "1">>)}
    [] OTHER                         -> {StrValue(<<"a", "b", "s", "e", "n", "t">>), StrValue(<<"p", "r", "e", "s", "e", "n", "t">>)}

\* every parameter from the i-th on filled in, in kit order
RECURSIVE FullFrom(_, _)
FullFrom(parameters, i) ==
  IF i > Len(parameters) THEN {<<>>}
  ELSE {<<[name |-> parameters[i].name, value |-> v]>> \o rest :
          v \in Readings(parameters[i]), rest \in FullFrom(parameters, i + 1)}

\* every parameter of the kit filled in (what the parameter form submits)
FullSubmissions(kit) == FullFrom(kit.parameters, 1)

\* a named value: a reading of a kit parameter, or a value under a name the
\* kit does not have
NamedValues(kit) ==
  UNION {{[name |-> kit.parameters[i].name, value |-> v] :
            v \in Readings(kit.parameters[i])} : i \in 1..Len(kit.parameters)}
  \cup {[name |-> "Unknown", value |-> NumValue(<<"1">>)]}

\* short lists in any order, with repeated and foreign names
PartialSubmissions(kit) ==
  UNION {[1..n -> NamedValues(kit)] : n \in 0..MaxSubmitted}

Submissions(kit) == FullSubmissions(kit) \cup PartialSubmissions(kit)

\* confidence fields handed to calculateWaterTestRisk, in hundredths: inside
\* 0..1, and outside it (the argument is typed any)
Confidences100 == {0 - 100, 0, 25, 30, 50, 65, 80, 100, 150, 700}

Tiers == {"high", "medium", "low", "unknown"}

ResultFlags == UNION {[1..n -> BOOLEAN] : n \in 0..MaxResults}

\* null, as a value comparable with the records the cells hold
null == [null |-> TRUE]

\* String.prototype.trim
RECURSIVE TrimStart(_)
TrimStart(str) ==
  IF str # <<>> /\ Head(str) \in WhiteSpace THEN TrimStart(Tail(str)) ELSE str

RECURSIVE TrimEnd(_)
TrimEnd(str) ==
  IF str # <<>> /\ str[Len(str)] \in WhiteSpace
  THEN TrimEnd(SubSeq(str, 1, Len(str) - 1))
  ELSE str

Trim(str) == TrimEnd(TrimStart(str))

\* the list without its i-th element
RemoveAt(seq, i) == SubSeq(seq, 1, i - 1) \o SubSeq(seq, i + 1, Len(seq))

\* most validation requests in flight at a time
MaxFetches == 1
\* how many parameters of a kit, counted from its first, the parameter form
\* is filled in with either reading (the others get the non-critical one)
MaxVaried == 2

\* what is typed in the location field, and in the coordinate fields
LocationTexts == {<<>>, <<" ">>, <<"P", "u", "n", "e">>}
LatitudeTexts == {<<>>, <<"1", "8", ".", "5">>}
LongitudeTexts == {<<>>, <<"7", "3", ".", "8">>}

\* the answers of validateLocationNeedsCoordinates, by what the geocoder
\* found: nothing or no answer, several places, one place
Validations ==
  { [needsCoordinates |-> TRUE, reason |-> "Location not found", suggestions |-> <<>>],
    [needsCoordinates |-> TRUE, reason |-> "Unable to validate location",
     suggestions |-> <<>>],
    [needsCoordinates |-> TRUE, reason |-> "Multiple locations found",
     suggestions |-> << [latitude |-> <<"1", "8", ".", "5">>,
                         longitude |-> <<"7", "3", ".", "8">>] >>],
    [needsCoordinates |-> FALSE, reason |-> "Location found successfully",
     suggestions |-> <<>>] }

\* the page as mounted: the effect has armed the timer for the empty location
InitWaterKits ==
  /\ currentStep = "location-input"
  /\ selectedKit = null
  /\ testResultsState = null
  /\ location = <<>>
  /\ needsCoordinates = FALSE
  /\ locationValidation = null
  /\ latitude = <<>>
  /\ longitude = <<>>
  /\ timeoutId = [locationValue |-> <<>>]
  /\ fetches = <<>>

\* the server as started: an empty database and no request received
InitServer ==
  /\ db = [name \in {"reports", "locationRisks", "waterTests", "userData"} |-> {}]
  /\ lastObjectId = 0
  /\ requests = <<>>

Init ==
  /\ fn = "none"
  /\ args = <<>>
  /\ ret = <<>>
  /\ InitWaterKits
  /\ InitServer

CallCalculateRiskLevel ==
  \E affectedCount \in AffectedCounts, symptoms \in SymptomLists :
    /\ fn = "none"
    /\ fn' = "calculateRiskLevel"
    /\ args' = [affectedCount |-> affectedCount, symptoms |-> symptoms]
    /\ ret' = calculateRiskLevel(affectedCount, symptoms)
    /\ UNCHANGED <<wizardVars, serverVars>>

CallGetRiskCategory ==
  \E p \in Percentages :
    /\ fn = "none"
    /\ fn' = "getRiskCategory"
    /\ args' = [riskPercentage |-> p]
    /\ ret' = [string |-> getRiskCategory(DFromInt(p))]
    /\ UNCHANGED <<wizardVars, serverVars>>

CallParseNumericValue ==
  \E value \in Values :
    /\ fn = "none"
    /\ fn' = "parseNumericValue"
    /\ args' = [value |-> value]
    /\ ret' = parseNumericValue(value)
    /\ UNCHANGED <<wizardVars, serverVars>>

CallIsInCriticalRange ==
  \E range \in RangeExprs, value \in Values :
    /\ fn = "none"
    /\ fn' = "isInCriticalRange"
    /\ args' = [parameter |-> Param("p", range, 65), value |-> value]
    /\ ret' = [boolean |-> isInCriticalRange(args'.parameter, value)]
    /\ UNCHANGED <<wizardVars, serverVars>>

CallGetRiskLevel ==
  \E range \in CatalogRanges, score100 \in Scores100, value \in Values :
    /\ fn = "none"
    /\ fn' = "getRiskLevel"
    /\ args' = [parameter |-> Param("p", range, score100), value |-> value,
                score100 |-> score100]
    /\ ret' = [string |-> getRiskLevel(args'.parameter, value)]
    /\ UNCHANGED <<wizardVars, serverVars>>

CallAnalyzeTestResults ==
  \E k \in 1..Len(testingKits) :
    \E parameterValues \in Submissions(testingKits[k]) :
      /\ fn = "none"
      /\ fn' = "analyzeTestResults"
      /\ args' = [kit |-> testingKits[k], parameterValues |-> parameterValues]
      /\ ret' = analyzeTestResults(testingKits[k], parameterValues)
      /\ UNCHANGED <<wizardVars, serverVars>>

CallCalculateWaterTestRisk ==
  \E hasResults \in BOOLEAN, flags \in ResultFlags, overallRisk \in Tiers,
     confidence100 \in Confidences100 :
    LET testResults ==
          [hasResults |-> hasResults,
           results |-> [i \in 1..Len(flags) |-> [isInCriticalRange |-> flags[i]]],
           overallRisk |-> overallRisk,
           confidence |-> Dec(confidence100, 2)]
    IN  /\ fn = "none"
        /\ fn' = "calculateWaterTestRisk"
        /\ args' = [testResults |-> testResults, confidence100 |-> confidence100]
        /\ ret' = calculateWaterTestRisk(testResults)
        /\ UNCHANGED <<wizardVars, serverVars>>

\* the caller has consumed the result
Return ==
  /\ fn # "none"
  /\ fn' = "none"
  /\ args' = <<>>
  /\ ret' = <<>>
  /\ UNCHANGED <<wizardVars, serverVars>>

\* ResultsDisplay renders the KitTestResult of the last analysis: the risk
\* percentage and its category
displayOf(riskPercentage) ==
  [riskPercentage |-> riskPercentage,
   riskCategory |-> getRiskCategory(riskPercentage)]

ResultsDisplay ==
  /\ fn = "analyzeTestResults"
  /\ fn' = "ResultsDisplay"
  /\ args' = [results |-> ret]
  /\ ret' = displayOf(calculateWaterTestRisk(AsTestResults(ret)))
  /\ UNCHANGED <<wizardVars, serverVars>>

Next ==
  \/ CallCalculateRiskLevel
  \/ CallGetRiskCategory
  \/ CallParseNumericValue
  \/ CallIsInCriticalRange
  \/ CallGetRiskLevel
  \/ CallAnalyzeTestResults
  \/ CallCalculateWaterTestRisk
  \/ Return

Spec == Init /\ [][Next]_vars

(***************************************************************************)
(* The authors' test script (risk-calculation.test.ts): each row of        *)
(* testCases is scored, categorized and compared with its expected risk,   *)
(* then five percentages are categorized.                                  *)
(***************************************************************************)
testCases ==
  << [affectedCount |-> 1, symptoms |-> <<"Diarrhea">>, expectedRisk |-> 12],
     [affectedCount |-> 10, symptoms |-> <<"Diarrhea", "Vomiting", "Fever">>,
      expectedRisk |-> 87],
     [affectedCount |-> 50, symptoms |-> <<"Fever">>, expectedRisk |-> 100],
     [affectedCount |-> 3, symptoms |-> <<>>, expectedRisk |-> 25] >>

categoryTestRisks == <<10, 35, 45, 75, 90>>

MathAbs(x) == IF x.nan THEN x ELSE [x EXCEPT !.s = 0]

\* the body of testCases.forEach, calculatedRisk being
\* calculateRiskLevel(testCase.affectedCount, testCase.symptoms)
testCaseReport(testCase, calculatedRisk) ==
  [calculatedRisk |-> calculatedRisk,
   category |-> getRiskCategory(calculatedRisk),
   pass |-> DGeq(DFromInt(5),
                 MathAbs(DSub(calculatedRisk, DFromInt(testCase.expectedRisk))))]

RunTestCase ==
  \E index \in 1..Len(testCases) :
    /\ fn = "none"
    /\ fn' = "testCase"
    /\ args' = [index |-> index, testCase |-> testCases[index]]
    /\ ret' = testCaseReport(testCases[index],
                calculateRiskLevel(testCases[index].affectedCount,
                                   testCases[index].symptoms))
    /\ UNCHANGED <<wizardVars, serverVars>>

RunCategoryTest ==
  \E index \in 1..Len(categoryTestRisks) :
    /\ fn = "none"
    /\ fn' = "categoryTest"
    /\ args' = [risk |-> categoryTestRisks[index]]
    /\ ret' = [string |-> getRiskCategory(DFromInt(categoryTestRisks[index]))]
    /\ UNCHANGED <<wizardVars, serverVars>>

\* the test script next to other callers of the outbreak scorer
NextTests ==
  \/ RunTestCase
  \/ RunCategoryTest
  \/ CallCalculateRiskLevel
  \/ Return

SpecTests == Init /\ [][NextTests]_vars

\* the kit wizard: an analysis of the submitted values, then its display
NextDisplay ==
  \/ CallAnalyzeTestResults
  \/ ResultsDisplay
  \/ Return

SpecDisplay == Init /\ [][NextDisplay]_vars

(***************************************************************************)
(* The water-test wizard (client/pages/WaterKits.tsx).  Every handler runs *)
(* to completion on the event loop, so each is one step; validateLocation  *)
(* is two, split at its await.  fn names the handler that ran last and     *)
(* args what it was given.  Only the controls the page renders are steps:  *)
(* KitSelector takes no onBack, so handleBackToLocation is never called,   *)
(* and handleBackToParameterInput is handed to no component.               *)
(***************************************************************************)
\* the location field's onChange; the effect clears the pending timer and
\* arms a new one for the new text
setLocation ==
  \E value \in LocationTexts :
    /\ currentStep = "location-input"
    /\ value # location
    /\ location' = value
    /\ timeoutId' = [locationValue |-> value]
    /\ fn' = "setLocation"
    /\ args' = [value |-> value]
    /\ UNCHANGED <<ret, currentStep, selectedKit, testResultsState, needsCoordinates,
                   locationValidation, latitude, longitude, fetches, serverVars>>

\* the coordinate fields, rendered while needsCoordinates
setLatitude ==
  \E value \in LatitudeTexts :
    /\ currentStep = "location-input"
    /\ needsCoordinates
    /\ value # latitude
    /\ latitude' = value
    /\ fn' = "setLatitude"
    /\ args' = [value |-> value]
    /\ UNCHANGED <<ret, currentStep, selectedKit, testResultsState, location,
                   needsCoordinates, locationValidation, longitude, timeoutId,
                   fetches, serverVars>>

setLongitude ==
  \E value \in LongitudeTexts :
    /\ currentStep = "location-input"
    /\ needsCoordinates
    /\ value # longitude
    /\ longitude' = value
    /\ fn' = "setLongitude"
    /\ args' = [value |-> value]
    /\ UNCHANGED <<ret, currentStep, selectedKit, testResultsState, location,
                   needsCoordinates, locationValidation, latitude, timeoutId,
                   fetches, serverVars>>

\* a click on one of the suggestions of the validation shown
selectSuggestion ==
  /\ currentStep = "location-input"
  /\ locationValidation # null
  /\ \E index \in 1..Len(locationValidation.suggestions) :
       /\ latitude' = locationValidation.suggestions[index].latitude
       /\ longitude' = locationValidation.suggestions[index].longitude
       /\ args' = [index |-> index]
  /\ fn' = "selectSuggestion"
  /\ UNCHANGED <<ret, currentStep, selectedKit, testResultsState, location,
                 needsCoordinates, locationValidation, timeoutId, fetches,
                 serverVars>>

\* the timer fires and validateLocation runs up to its await: a blank
\* location resets the validation, any other is sent to the server
validateLocation ==
  /\ timeoutId # null
  /\ IF Trim(timeoutId.locationValue) = <<>>
     THEN /\ locationValidation' = null
          /\ needsCoordinates' = FALSE
          /\ fetches' = fetches
     ELSE /\ Len(fetches) < MaxFetches
          /\ fetches' = Append(fetches, timeoutId.locationValue)
          /\ UNCHANGED <<locationValidation, needsCoordinates>>
  /\ timeoutId' = null
  /\ fn' = "validateLocation"
  /\ args' = [locationValue |-> timeoutId.locationValue]
  /\ UNCHANGED <<ret, currentStep, selectedKit, testResultsState, location, latitude,
                 longitude, serverVars>>

\* the cells validateLocation writes once the answer is there; a failed
\* fetch leaves the same cells as the answer "Unable to validate location"
applyValidation(validation) ==
  /\ locationValidation' = validation
  /\ needsCoordinates' = validation.needsCoordinates
  /\ latitude' = IF validation.needsCoordinates THEN latitude ELSE <<>>
  /\ longitude' = IF validation.needsCoordinates THEN longitude ELSE <<>>

\* the answer to one of the requests in flight arrives, whatever the step
validateLocationResponse ==
  \E index \in 1..Len(fetches), validation \in Validations :
    /\ applyValidation(validation)
    /\ fetches' = RemoveAt(fetches, index)
    /\ fn' = "validateLocationResponse"
    /\ args' = [locationValue |-> fetches[index], validation |-> validation]
    /\ UNCHANGED <<ret, currentStep, selectedKit, testResultsState, location,
                   timeoutId, serverVars>>

\* "Continue to Kit Selection"
handleLocationSubmit ==
  /\ currentStep = "location-input"
  /\ Trim(location) # <<>>
  /\ ~(needsCoordinates /\ (latitude = <<>> \/ longitude = <<>>))
  /\ currentStep' = "kit-selection"
  /\ fn' = "handleLocationSubmit"
  /\ args' = <<>>
  /\ UNCHANGED <<ret, selectedKit, testResultsState, location, needsCoordinates,
                 locationValidation, latitude, longitude, timeoutId, fetches,
                 serverVars>>

\* a click on a kit card of KitSelector
handleKitSelection ==
  \E index \in 1..Len(testingKits) :
    /\ currentStep = "kit-selection"
    /\ selectedKit' = testingKits[index]
    /\ currentStep' = "parameter-input"
    /\ fn' = "handleKitSelection"
    /\ args' = [kit |-> testingKits[index]]
    /\ UNCHANGED <<ret, testResultsState, location, needsCoordinates,
                   locationValidation, latitude, longitude, timeoutId, fetches,
                   serverVars>>

\* the reading of a parameter outside its critical range
safeReading(parameter) ==
  CHOOSE v \in Readings(parameter) : ~isInCriticalRange(parameter, v)

\* what ParameterInput submits: a value for every parameter, in kit order
RECURSIVE FormFrom(_, _)
FormFrom(parameters, i) ==
  IF i > Len(parameters) THEN {<<>>}
  ELSE {<<[name |-> parameters[i].name, value |-> v]>> \o rest :
          v \in IF i <= MaxVaried THEN Readings(parameters[i])
                ELSE {safeReading(parameters[i])},
          rest \in FormFrom(parameters, i + 1)}

\* the state after handleParameterSubmit, given the analysis
showResults(results) ==
  /\ testResultsState' = results
  /\ currentStep' = "results"

\* the submit button of ParameterInput
handleParameterSubmit ==
  /\ currentStep = "parameter-input"
  /\ selectedKit # null
  /\ \E parameterValues \in FormFrom(selectedKit.parameters, 1) :
       /\ showResults(analyzeTestResults(selectedKit, parameterValues))
       /\ args' = [parameterValues |-> parameterValues]
  /\ fn' = "handleParameterSubmit"
  /\ UNCHANGED <<ret, selectedKit, location, needsCoordinates,
                 locationValidation, latitude, longitude, timeoutId, fetches,
                 serverVars>>

\* "Run New Test" leaving the shown result in place
handleRunNewTest_KeepsResult ==
  /\ currentStep = "results"
  /\ testResultsState # null
  /\ currentStep' = "parameter-input"
  /\ fn' = "handleRunNewTest"
  /\ args' = <<>>
  /\ UNCHANGED <<ret, selectedKit, testResultsState, location, needsCoordinates,
                 locationValidation, latitude, longitude, timeoutId, fetches,
                 serverVars>>

\* "Back to Kit Selection" of ParameterInput and "Different Kit" of
\* ResultsDisplay
handleBackToKitSelection ==
  /\ \/ currentStep = "parameter-input" /\ selectedKit # null
     \/ currentStep = "results" /\ testResultsState # null
  /\ currentStep' = "kit-selection"
  /\ selectedKit' = null
  /\ testResultsState' = null
  /\ fn' = "handleBackToKitSelection"
  /\ args' = <<>>
  /\ UNCHANGED <<ret, location, needsCoordinates, locationValidation, latitude,
                 longitude, timeoutId, fetches, serverVars>>

\* "Run New Test" dropping the kit as well, as handleBackToLocation does
handleRunNewTest_ClearsKit ==
  /\ currentStep = "results"
  /\ testResultsState # null
  /\ currentStep' = "parameter-input"
  /\ selectedKit' = null
  /\ testResultsState' = null
  /\ fn' = "handleRunNewTest"
  /\ args' = <<>>
  /\ UNCHANGED <<ret, location, needsCoordinates, locationValidation, latitude,
                 longitude, timeoutId, fetches, serverVars>>

\* "Run New Test" of ResultsDisplay
handleRunNewTest ==
  /\ currentStep = "results"
  /\ testResultsState # null
  /\ currentStep' = "parameter-input"
  /\ testResultsState' = null
  /\ fn' = "handleRunNewTest"
  /\ args' = <<>>
  /\ UNCHANGED <<ret, selectedKit, location, needsCoordinates,
                 locationValidation, latitude, longitude, timeoutId, fetches,
                 serverVars>>

NextWaterKits ==
  \/ setLocation
  \/ setLatitude
  \/ setLongitude
  \/ selectSuggestion
  \/ validateLocation
  \/ validateLocationResponse
  \/ handleLocationSubmit
  \/ handleKitSelection
  \/ handleParameterSubmit
  \/ handleBackToKitSelection
  \/ handleRunNewTest

SpecWaterKits == Init /\ [][NextWaterKits]_vars

(***************************************************************************)
(* The server (server/index.ts, routes/reports.ts, routes/analytics.ts).   *)
(* A handler runs until it awaits the database; other handlers run in      *)
(* between.  A step is the arrival of a request with everything the        *)
(* handler does before its first database call, or one database call       *)
(* taking effect with everything the handler does until its next one.      *)
(* Each database call may fail.  Of a document the fields the handlers     *)
(* decide on are kept; createdAt is the arrival number of the request, and *)
(* date, notes, id and timestamp are left out.                             *)
(***************************************************************************)
\* most requests the server receives
MaxRequests == 2

LOC_Pune == <<"P", "u", "n", "e">>
LOC_PUNE == <<"P", "U", "N", "E">>

\* bodies posted to /api/reports: two reports of one place, a body without
\* location, and a report whose score is NaN
ReportBodies ==
  { [location |-> LOC_Pune, affectedCount |-> 3, symptoms |-> <<"Fever">>],
    [location |-> LOC_PUNE, affectedCount |-> 60, symptoms |-> <<>>],
    [location |-> <<>>, affectedCount |-> 3, symptoms |-> <<>>],
    [location |-> LOC_Pune, affectedCount |-> 0, symptoms |-> <<"toString">>] }

\* bodies posted to /api/analytics: what ResultsDisplay submits (no type),
\* typed records of one place, and bodies the handler rejects
AnalyticsBodies ==
  { [location |-> LOC_Pune, riskPercentage |-> 59, type |-> "undefined",
     source |-> "kit analysis"],
    [location |-> LOC_Pune, riskPercentage |-> 59, type |-> "water-test",
     source |-> "undefined"],
    [location |-> LOC_PUNE, riskPercentage |-> 77, type |-> "water-test",
     source |-> "undefined"],
    [location |-> LOC_Pune, riskPercentage |-> 33, type |-> "report",
     source |-> "undefined"],
    [location |-> <<>>, riskPercentage |-> 59, type |-> "water-test",
     source |-> "undefined"],
    [location |-> LOC_Pune, riskPercentage |-> 150, type |-> "report",
     source |-> "undefined"],
    [location |-> LOC_Pune, riskPercentage |-> 59, type |-> "marker",
     source |-> "undefined"] }

\* what the geocoder finds for a location
Geocoded == {null, [latitude |-> <<"1", "8", ".", "5">>,
                    longitude |-> <<"7", "3", ".", "8">>]}

\* ReportSchema.parse accepts the body
ReportSchemaAccepts(body) ==
  Len(body.location) >= 1 /\ body.affectedCount \in Nat

\* new RegExp(`^${location}$`, "i").test(str), for a location of letters,
\* digits, spaces and dots
RegExpTest(pattern, str) ==
  /\ Len(pattern) = Len(str)
  /\ \A i \in 1..Len(pattern) :
       pattern[i] = "." \/ LowerChar(pattern[i]) = LowerChar(str[i])

\* collection.findOne(filter), given the documents the filter matches: the
\* first of them in insertion order, or null
findOne(matching) ==
  IF matching = {} THEN null
  ELSE CHOOSE d \in matching : \A e \in matching : d._id <= e._id

\* collection.insertOne(doc) with the ObjectId the driver assigns
insertOne(collection, doc, objectId) ==
  collection \cup {[doc EXCEPT !._id = objectId]}

\* collection.updateOne({_id}, {$set: fields}) for the fields both handlers
\* set; a type given as "undefined" is not set
updateOne(collection, objectId, fields) ==
  {IF d._id = objectId
   THEN [d EXCEPT !.location = fields.location,
                  !.riskPercentage = fields.riskPercentage,
                  !.source = fields.source,
                  !.reportId = fields.reportId,
                  !.type = IF fields.type = "undefined" THEN d.type ELSE fields.type]
   ELSE d : d \in collection}

\* a request as received, with the locals of its handler
Request(handler, body) ==
  [handler |-> handler, body |-> body, pc |-> "start", doc |-> null,
   existing |-> null, insertedId |-> 0, analyticsError |-> FALSE,
   answeredBefore |-> {i \in 1..Len(requests) : requests[i].pc = "done"},
   res |-> null]

\* res.status(status).json(body) ends the handler
Respond(request, status, body) ==
  [request EXCEPT !.pc = "done", !.res = [status |-> status, body |-> body]]

\* JSON.stringify of a number: NaN is written as null
JsonNumber(x) == IF IsNaN(x) THEN null ELSE x

\* the document createReport builds from a parsed body
reportDoc(body, coordinates, createdAt) ==
  [_id |-> 0, location |-> body.location, symptoms |-> body.symptoms,
   affectedCount |-> body.affectedCount, createdAt |-> createdAt,
   riskPercentage |-> calculateRiskLevel(body.affectedCount, body.symptoms),
   coordinates |-> coordinates]

\* the 201 answer of createReport
created(request) ==
  Respond(request, 201,
          [id |-> request.insertedId, location |-> request.doc.location,
           riskPercentage |-> JsonNumber(request.doc.riskPercentage),
           coordinates |-> request.doc.coordinates])

\* the 400 answer of the outer catch of createReport
rejected(request) == Respond(request, 400, [error |-> "Invalid request"])

\* the record createReport writes to locationRisks
locationRiskData(request) ==
  [_id |-> 0, location |-> request.body.location,
   riskPercentage |-> request.doc.riskPercentage, type |-> "undefined",
   source |-> "community_report", reportId |-> request.insertedId]

\* POST /api/reports arrives: the body is parsed, scored and geocoded
createReport ==
  \E body \in ReportBodies, coordinates \in Geocoded :
    /\ Len(requests) < MaxRequests
    /\ requests' =
         Append(requests,
                IF ReportSchemaAccepts(body)
                THEN [Request("createReport", body) EXCEPT
                        !.pc = "insertOne",
                        !.doc = reportDoc(body, coordinates, Len(requests) + 1)]
                ELSE rejected(Request("createReport", body)))
    /\ UNCHANGED <<fn, args, ret, wizardVars, db, lastObjectId>>

\* the request after reportsCol.insertOne: on to the analytics record if
\* the score is above 0, else answered
afterReportInserted(request, insertedId) ==
  IF DGreater(request.doc.riskPercentage, Zero)
  THEN [request EXCEPT !.insertedId = insertedId, !.pc = "findOne"]
  ELSE created([request EXCEPT !.insertedId = insertedId])

\* reportsCol.insertOne(doc) takes effect, or fails
createReportInsertOne ==
  \E i \in 1..Len(requests), ok \in BOOLEAN :
    /\ requests[i].handler = "createReport"
    /\ requests[i].pc = "insertOne"
    /\ IF ok
       THEN /\ lastObjectId' = lastObjectId + 1
            /\ db' = [db EXCEPT !.reports =
                        insertOne(@, requests[i].doc, lastObjectId + 1)]
            /\ requests' = [requests EXCEPT ![i] =
                              afterReportInserted(@, lastObjectId + 1)]
       ELSE /\ requests' = [requests EXCEPT ![i] = rejected(@)]
            /\ UNCHANGED <<db, lastObjectId>>
    /\ UNCHANGED <<fn, args, ret, wizardVars>>

\* the inner catch passing the error on to the outer catch
analyticsFailed_Rethrows(request) ==
  rejected([request EXCEPT !.analyticsError = TRUE])

\* the inner catch of createReport: the error is logged and the report
\* answered
analyticsFailed(request) == created([request EXCEPT !.analyticsError = TRUE])

\* analyticsCol.findOne({location: {$regex}}) answers, or fails
createReportFindOne ==
  \E i \in 1..Len(requests), ok \in BOOLEAN :
    /\ requests[i].handler = "createReport"
    /\ requests[i].pc = "findOne"
    /\ requests' =
         [requests EXCEPT ![i] =
            IF ok
            THEN [@ EXCEPT !.pc = "write",
                           !.existing =
                             findOne({d \in db.locationRisks :
                                        RegExpTest(requests[i].body.location,
                                                   d.location)})]
            ELSE analyticsFailed(@)]
    /\ UNCHANGED <<fn, args, ret, wizardVars, db, lastObjectId>>

\* analyticsCol.updateOne or insertOne takes effect, or fails; the report
\* is answered
createReportWrite ==
  \E i \in 1..Len(requests), ok \in BOOLEAN :
    /\ requests[i].handler = "createReport"
    /\ requests[i].pc = "write"
    /\ IF ~ok
       THEN /\ requests' = [requests EXCEPT ![i] = analyticsFailed(@)]
            /\ UNCHANGED <<db, lastObjectId>>
       ELSE /\ requests' = [requests EXCEPT ![i] = created(@)]
            /\ IF requests[i].existing # null
               THEN /\ db' = [db EXCEPT !.locationRisks =
                                updateOne(@, requests[i].existing._id,
                                          locationRiskData(requests[i]))]
                    /\ UNCHANGED lastObjectId
               ELSE /\ db' = [db EXCEPT !.locationRisks =
                                insertOne(@, locationRiskData(requests[i]),
                                          lastObjectId + 1)]
                    /\ lastObjectId' = lastObjectId + 1
    /\ UNCHANGED <<fn, args, ret, wizardVars>>

\* type = "user-added" unless the body names one
typeOf(body) == IF body.type = "undefined" THEN "user-added" ELSE body.type

\* the checks of addLocationRisk on its body
locationRiskAccepted(body) ==
  /\ body.location # <<>>
  /\ ~(body.riskPercentage < 0 \/ body.riskPercentage > 100)
  /\ typeOf(body) \in {"report", "water-test", "user-added"}

newLocationRisk(body) ==
  [_id |-> 0, location |-> body.location,
   riskPercentage |-> DFromInt(body.riskPercentage), type |-> typeOf(body),
   source |-> body.source, reportId |-> 0]

\* POST /api/analytics arrives and the body is checked
addLocationRisk ==
  \E body \in AnalyticsBodies :
    /\ Len(requests) < MaxRequests
    /\ requests' =
         Append(requests,
                IF locationRiskAccepted(body)
                THEN [Request("addLocationRisk", body) EXCEPT
                        !.pc = IF typeOf(body) = "user-added"
                               THEN "insertOne" ELSE "findOne",
                        !.doc = newLocationRisk(body)]
                ELSE Respond(Request("addLocationRisk", body), 400,
                             [error |-> "Bad request"]))
    /\ UNCHANGED <<fn, args, ret, wizardVars, db, lastObjectId>>

\* the success answer of addLocationRisk
added(request, objectId) ==
  Respond(request, 200,
          [success |-> TRUE, data |-> [request.doc EXCEPT !._id = objectId]])

\* the 500 answer of the catch of addLocationRisk
failed(request) ==
  Respond(request, 500, [error |-> "Failed to add location risk data"])

\* a user-added marker: collection.insertOne takes effect, or fails
addLocationRiskInsertOne ==
  \E i \in 1..Len(requests), ok \in BOOLEAN :
    /\ requests[i].handler = "addLocationRisk"
    /\ requests[i].pc = "insertOne"
    /\ IF ok
       THEN /\ db' = [db EXCEPT !.locationRisks =
                        insertOne(@, requests[i].doc, lastObjectId + 1)]
            /\ lastObjectId' = lastObjectId + 1
            /\ requests' = [requests EXCEPT ![i] = added(@, lastObjectId + 1)]
       ELSE /\ requests' = [requests EXCEPT ![i] = failed(@)]
            /\ UNCHANGED <<db, lastObjectId>>
    /\ UNCHANGED <<fn, args, ret, wizardVars>>

\* collection.findOne({location: {$regex}, type}) answers, or fails
addLocationRiskFindOne ==
  \E i \in 1..Len(requests), ok \in BOOLEAN :
    /\ requests[i].handler = "addLocationRisk"
    /\ requests[i].pc = "findOne"
    /\ requests' =
         [requests EXCEPT ![i] =
            IF ok
            THEN [@ EXCEPT !.pc = "write",
                           !.existing =
                             findOne({d \in db.locationRisks :
                                        /\ RegExpTest(requests[i].body.location,
                                                      d.location)
                                        /\ d.type = requests[i].doc.type})]
            ELSE failed(@)]
    /\ UNCHANGED <<fn, args, ret, wizardVars, db, lastObjectId>>

\* collection.updateOne or insertOne takes effect, or fails
addLocationRiskWrite ==
  \E i \in 1..Len(requests), ok \in BOOLEAN :
    /\ requests[i].handler = "addLocationRisk"
    /\ requests[i].pc = "write"
    /\ IF ~ok
       THEN /\ requests' = [requests EXCEPT ![i] = failed(@)]
            /\ UNCHANGED <<db, lastObjectId>>
       ELSE IF requests[i].existing # null
       THEN /\ db' = [db EXCEPT !.locationRisks =
                        updateOne(@, requests[i].existing._id, requests[i].doc)]
            /\ UNCHANGED lastObjectId
            /\ requests' =
                 [requests EXCEPT ![i] =
                    IF \E d \in db.locationRisks : d._id = requests[i].existing._id
                    THEN added(@, requests[i].existing._id)
                    ELSE Respond(@, 500, [error |-> "Failed to update location risk"])]
       ELSE /\ db' = [db EXCEPT !.locationRisks =
                        insertOne(@, requests[i].doc, lastObjectId + 1)]
            /\ lastObjectId' = lastObjectId + 1
            /\ requests' = [requests EXCEPT ![i] = added(@, lastObjectId + 1)]
    /\ UNCHANGED <<fn, args, ret, wizardVars>>

\* x || 0 for a number
OrZero(x) == IF IsNaN(x) \/ IsZero(x) THEN Zero ELSE x

\* a collection in the analytics format
risksOf(collection, type) ==
  {[id |-> d._id, location |-> d.location,
    riskPercentage |-> OrZero(d.riskPercentage), timestamp |-> d.createdAt,
    type |-> type] : d \in collection}

\* Array.prototype.sort((a, b) => b.timestamp - a.timestamp)
RECURSIVE sortByTimestamp(_)
sortByTimestamp(risks) ==
  IF risks = {} THEN <<>>
  ELSE LET first == CHOOSE a \in risks : \A b \in risks :
                      \/ a.timestamp > b.timestamp
                      \/ a.timestamp = b.timestamp /\ a.id <= b.id
       IN  <<first>> \o sortByTimestamp(risks \ {first})

\* the reports, water tests and user data, newest first
allRisks ==
  sortByTimestamp(risksOf(db.reports, "report")
                  \cup risksOf(db.waterTests, "water-test")
                  \cup risksOf(db.userData, "user-added"))

\* GET /api/analytics arrives
getLocationRisks ==
  /\ Len(requests) < MaxRequests
  /\ requests' = Append(requests, [Request("getLocationRisks", null) EXCEPT
                                     !.pc = "find"])
  /\ UNCHANGED <<fn, args, ret, wizardVars, db, lastObjectId>>

\* the three collections are read, or a read fails
getLocationRisksFind ==
  \E i \in 1..Len(requests), ok \in BOOLEAN :
    /\ requests[i].handler = "getLocationRisks"
    /\ requests[i].pc = "find"
    /\ requests' =
         [requests EXCEPT ![i] =
            IF ok
            THEN Respond(@, 200, [success |-> TRUE, data |-> allRisks])
            ELSE Respond(@, 500, [error |-> "Failed to retrieve location risk data"])]
    /\ UNCHANGED <<fn, args, ret, wizardVars, db, lastObjectId>>

NextServer ==
  \/ createReport
  \/ createReportInsertOne
  \/ createReportFindOne
  \/ createReportWrite
  \/ addLocationRisk
  \/ addLocationRiskInsertOne
  \/ addLocationRiskFindOne
  \/ addLocationRiskWrite
  \/ getLocationRisks
  \/ getLocationRisksFind

SpecServer == Init /\ [][NextServer]_vars

(***************************************************************************)
(* Properties.  The expected results of the range evaluator are written    *)
(* down by hand, independently of the evaluator: ExprTable gives each      *)
(* range expression its shape and its clauses as decimals m / 10^k,        *)
(* ValueTable gives each value the decimal it stands for (numeric) and     *)
(* whether it is one of the five presence tokens once lower-cased.         *)
(*   shape "presence": contains "presence" in some letter case             *)
(*   shape "two":      no "presence", contains both < and >; clauses are   *)
(*                     the <N and >N with a number N right after the sign  *)
(*   shape "one":      starts with < or >, then a number, then nothing or  *)
(*                     a space and unit text                               *)
(*   shape "leading":  starts with < or > not followed by a number         *)
(*   shape "none":     none of these                                       *)
(***************************************************************************)
ExprTable ==
  { [expr |-> <<"<", "6", ".", "5", " ", "o", "r", " ", ">", "8", ".", "5">>,
     shape |-> "two", clauses |-> <<[op |-> "<", m |-> 65, k |-> 1], [op |-> ">", m |-> 85, k |-> 1]>>],
    [expr |-> <<">", "1", " ", "N", "T", "U">>,
     shape |-> "one", clauses |-> <<[op |-> ">", m |-> 1, k |-> 0]>>],
    [expr |-> <<"<", "0", ".", "2", " ", "m", "g", "/", "L">>,
     shape |-> "one", clauses |-> <<[op |-> "<", m |-> 2, k |-> 1]>>],
    [expr |-> <<">", "4", "5", " ", "m", "g", "/", "L">>,
     shape |-> "one", clauses |-> <<[op |-> ">", m |-> 45, k |-> 0]>>],
    [expr |-> <<">", "1", ".", "5", " ", "m", "g", "/", "L">>,
     shape |-> "one", clauses |-> <<[op |-> ">", m |-> 15, k |-> 1]>>],
    [expr |-> <<">", "0", ".", "3", " ", "m", "g", "/", "L">>,
     shape |-> "one", clauses |-> <<[op |-> ">", m |-> 3, k |-> 1]>>],
    [expr |-> <<">", "1", "5", "0", " ", "m", "g", "/", "L">>,
     shape |-> "one", clauses |-> <<[op |-> ">", m |-> 150, k |-> 0]>>],
    [expr |-> <<">", "2", "0", "0", " ", "m", "g", "/", "L">>,
     shape |-> "one", clauses |-> <<[op |-> ">", m |-> 200, k |-> 0]>>],
    [expr |-> <<"P", "r", "e", "s", "e", "n", "c", "e", " ", "i", "n", " ", "1", "0", "0", " ", "m", "L">>,
     shape |-> "presence", clauses |-> <<>>],
    [expr |-> <<"P", "r", "e", "s", "e", "n", "c", "e", " ", "i", "n", " ", "v", "i", "a", "l">>,
     shape |-> "presence", clauses |-> <<>>],
    [expr |-> <<"P", "R", "E", "S", "E", "N", "C", "E", " ", ">", "0">>,
     shape |-> "presence", clauses |-> <<>>],
    [expr |-> <<"E", ".", " ", "c", "o", "l", "i", " ", "p", "r", "e", "s", "e", "n", "c", "e", " ", "<", "1", " ", "o", "r", " ", ">", "0">>,
     shape |-> "presence", clauses |-> <<>>],
    [expr |-> <<">", "8", ".", "5", " ", "o", "r", " ", "<", "6", ".", "5">>,
     shape |-> "two", clauses |-> <<[op |-> ">", m |-> 85, k |-> 1], [op |-> "<", m |-> 65, k |-> 1]>>],
    [expr |-> <<"<", "2", " ", "o", "r", " ", ">", "1">>,
     shape |-> "two", clauses |-> <<[op |-> "<", m |-> 2, k |-> 0], [op |-> ">", m |-> 1, k |-> 0]>>],
    [expr |-> <<"<", "5", " ", ">", ".">>,
     shape |-> "two", clauses |-> <<[op |-> "<", m |-> 5, k |-> 0]>>],
    [expr |-> <<"<", " ", "6", ".", "5", " ", "o", "r", " ", ">", " ", "8", ".", "5">>,
     shape |-> "two", clauses |-> <<>>],
    [expr |-> <<"m", "g", "/", "L">>,
     shape |-> "none", clauses |-> <<>>],
    [expr |-> <<>>,
     shape |-> "none", clauses |-> <<>>],
    [expr |-> <<"p", "H", " ", "<", "6", ".", "5">>,
     shape |-> "none", clauses |-> <<>>],
    [expr |-> <<"6", ".", "5", "-", "8", ".", "5">>,
     shape |-> "none", clauses |-> <<>>],
    [expr |-> <<">", "a", "b", "c">>,
     shape |-> "leading", clauses |-> <<>>],
    [expr |-> <<">", " ", "5", " ", "m", "g", "/", "L">>,
     shape |-> "leading", clauses |-> <<>>],
    [expr |-> <<">", "1">>,
     shape |-> "one", clauses |-> <<[op |-> ">", m |-> 1, k |-> 0]>>],
    [expr |-> <<"<", "0", ".", "2">>,
     shape |-> "one", clauses |-> <<[op |-> "<", m |-> 2, k |-> 1]>>],
    [expr |-> <<">", "1", "e", "2", " ", "m", "g", "/", "L">>,
     shape |-> "one", clauses |-> <<[op |-> ">", m |-> 100, k |-> 0]>>] }

ValueTable ==
  { [value |-> StrValue(<<"p", "r", "e", "s", "e", "n", "t">>),
     numeric |-> FALSE, m |-> 0, k |-> 0, presence |-> TRUE],
    [value |-> StrValue(<<"P", "r", "e", "s", "e", "n", "t">>),
     numeric |-> FALSE, m |-> 0, k |-> 0, presence |-> TRUE],
    [value |-> StrValue(<<"P", "O", "S", "I", "T", "I", "V", "E">>),
     numeric |-> FALSE, m |-> 0, k |-> 0, presence |-> TRUE],
    [value |-> StrValue(<<"y", "e", "s">>),
     numeric |-> FALSE, m |-> 0, k |-> 0, presence |-> TRUE],
    [value |-> StrValue(<<"1">>),
     numeric |-> TRUE, m |-> 1, k |-> 0, presence |-> TRUE],
    [value |-> StrValue(<<"t", "r", "u", "e">>),
     numeric |-> FALSE, m |-> 0, k |-> 0, presence |-> TRUE],
    [value |-> StrValue(<<"T", "R", "U", "E">>),
     numeric |-> FALSE, m |-> 0, k |-> 0, presence |-> TRUE],
    [value |-> StrValue(<<"a", "b", "s", "e", "n", "t">>),
     numeric |-> FALSE, m |-> 0, k |-> 0, presence |-> FALSE],
    [value |-> StrValue(<<"n", "e", "g", "a", "t", "i", "v", "e">>),
     numeric |-> FALSE, m |-> 0, k |-> 0, presence |-> FALSE],
    [value |-> StrValue(<<"0">>),
     numeric |-> TRUE, m |-> 0, k |-> 0, presence |-> FALSE],
    [value |-> StrValue(<<"f", "a", "l", "s", "e">>),
     numeric |-> FALSE, m |-> 0, k |-> 0, presence |-> FALSE],
    [value |-> StrValue(<<"n", "o">>),
     numeric |-> FALSE, m |-> 0, k |-> 0, presence |-> FALSE],
    [value |-> StrValue(<<"a", "b", "c">>),
     numeric |-> FALSE, m |-> 0, k |-> 0, presence |-> FALSE],
    [value |-> StrValue(<<>>),
     numeric |-> FALSE, m |-> 0, k |-> 0, presence |-> FALSE],
    [value |-> StrValue(<<" ", "p", "r", "e", "s", "e", "n", "t">>),
     numeric |-> FALSE, m |-> 0, k |-> 0, presence |-> FALSE],
    [value |-> StrValue(<<"1", ".", "0">>),
     numeric |-> TRUE, m |-> 1, k |-> 0, presence |-> FALSE],
    [value |-> StrValue(<<"7", ".", "0">>),
     numeric |-> TRUE, m |-> 7, k |-> 0, presence |-> FALSE],
    [value |-> StrValue(<<"6", ".", "0">>),
     numeric |-> TRUE, m |-> 6, k |-> 0, presence |-> FALSE],
    [value |-> StrValue(<<"9", ".", "0">>),
     numeric |-> TRUE, m |-> 9, k |-> 0, presence |-> FALSE],
    [value |-> StrValue(<<"6", ".", "5">>),
     numeric |-> TRUE, m |-> 65, k |-> 1, presence |-> FALSE],
    [value |-> StrValue(<<"8", ".", "5">>),
     numeric |-> TRUE, m |-> 85, k |-> 1, presence |-> FALSE],
    [value |-> StrValue(<<"0", ".", "1">>),
     numeric |-> TRUE, m |-> 1, k |-> 1, presence |-> FALSE],
    [value |-> StrValue(<<"2", "a", "b", "c">>),
     numeric |-> TRUE, m |-> 2, k |-> 0, presence |-> FALSE],
    [value |-> StrValue(<<"-", "1">>),
     numeric |-> TRUE, m |-> -1, k |-> 0, presence |-> FALSE],
    [value |-> NumValue(<<"1">>),
     numeric |-> TRUE, m |-> 1, k |-> 0, presence |-> TRUE],
    [value |-> NumValue(<<"0">>),
     numeric |-> TRUE, m |-> 0, k |-> 0, presence |-> FALSE],
    [value |-> NumValue(<<"-", "1">>),
     numeric |-> TRUE, m |-> -1, k |-> 0, presence |-> FALSE],
    [value |-> NumValue(<<"0", ".", "1">>),
     numeric |-> TRUE, m |-> 1, k |-> 1, presence |-> FALSE],
    [value |-> NumValue(<<"0", ".", "2">>),
     numeric |-> TRUE, m |-> 2, k |-> 1, presence |-> FALSE],
    [value |-> NumValue(<<"0", ".", "3">>),
     numeric |-> TRUE, m |-> 3, k |-> 1, presence |-> FALSE],
    [value |-> NumValue(<<"0", ".", "4">>),
     numeric |-> TRUE, m |-> 4, k |-> 1, presence |-> FALSE],
    [value |-> NumValue(<<"0", ".", "5">>),
     numeric |-> TRUE, m |-> 5, k |-> 1, presence |-> FALSE],
    [value |-> NumValue(<<"1", ".", "5">>),
     numeric |-> TRUE, m |-> 15, k |-> 1, presence |-> FALSE],
    [value |-> NumValue(<<"1", ".", "6">>),
     numeric |-> TRUE, m |-> 16, k |-> 1, presence |-> FALSE],
    [value |-> NumValue(<<"2">>),
     numeric |-> TRUE, m |-> 2, k |-> 0, presence |-> FALSE],
    [value |-> NumValue(<<"6">>),
     numeric |-> TRUE, m |-> 6, k |-> 0, presence |-> FALSE],
    [value |-> NumValue(<<"6", ".", "5">>),
     numeric |-> TRUE, m |-> 65, k |-> 1, presence |-> FALSE],
    [value |-> NumValue(<<"7">>),
     numeric |-> TRUE, m |-> 7, k |-> 0, presence |-> FALSE],
    [value |-> NumValue(<<"8", ".", "5">>),
     numeric |-> TRUE, m |-> 85, k |-> 1, presence |-> FALSE],
    [value |-> NumValue(<<"9">>),
     numeric |-> TRUE, m |-> 9, k |-> 0, presence |-> FALSE],
    [value |-> NumValue(<<"4", "5">>),
     numeric |-> TRUE, m |-> 45, k |-> 0, presence |-> FALSE],
    [value |-> NumValue(<<"4", "6">>),
     numeric |-> TRUE, m |-> 46, k |-> 0, presence |-> FALSE],
    [value |-> NumValue(<<"1", "0", "0">>),
     numeric |-> TRUE, m |-> 100, k |-> 0, presence |-> FALSE],
    [value |-> NumValue(<<"1", "0", "1">>),
     numeric |-> TRUE, m |-> 101, k |-> 0, presence |-> FALSE],
    [value |-> NumValue(<<"1", "5", "0">>),
     numeric |-> TRUE, m |-> 150, k |-> 0, presence |-> FALSE],
    [value |-> NumValue(<<"1", "5", "1">>),
     numeric |-> TRUE, m |-> 151, k |-> 0, presence |-> FALSE],
    [value |-> NumValue(<<"2", "0", "0">>),
     numeric |-> TRUE, m |-> 200, k |-> 0, presence |-> FALSE],
    [value |-> NumValue(<<"2", "0", "1">>),
     numeric |-> TRUE, m |-> 201, k |-> 0, presence |-> FALSE],
    [value |-> NumValue(<<"N", "a", "N">>),
     numeric |-> FALSE, m |-> 0, k |-> 0, presence |-> FALSE] }

ExprEntry(expr) == CHOOSE r \in ExprTable : r.expr = expr
ValueEntry(value) == CHOOSE r \in ValueTable : r.value = value

RECURSIVE TenTo(_)
TenTo(k) == IF k = 0 THEN 1 ELSE 10 * TenTo(k - 1)

\* the decimal of value entry v satisfies clause c
ClauseSatisfied(v, c) ==
  IF c.op = "<" THEN v.m * TenTo(c.k) < c.m * TenTo(v.k)
  ELSE v.m * TenTo(c.k) > c.m * TenTo(v.k)

SomeClauseSatisfied(v, clauses) ==
  v.numeric /\ \E i \in 1..Len(clauses) : ClauseSatisfied(v, clauses[i])

(* C1: for every non-negative affected count and every list of symptoms    *)
(* from the six-name vocabulary, calculateRiskLevel returns an integer     *)
(* that is at least 10 and at most 100.                                    *)
C1_ScoreBetween10And100 ==
  (/\ fn = "calculateRiskLevel"
   /\ args.affectedCount >= 0
   /\ \A i \in 1..Len(args.symptoms) : args.symptoms[i] \in SeverityNames)
  => (DIsInt(ret) /\ DToInt(ret) >= 10 /\ DToInt(ret) <= 100)

\* a large outbreak with two recognized symptoms is capped at 100
C1_Witness ==
  /\ fn = "calculateRiskLevel"
  /\ args.affectedCount > 100
  /\ args.symptoms = <<"Vomiting", "Fever">>
  /\ DIsInt(ret) /\ DToInt(ret) = 100

(* C2: for every input with a results array, whatever its tier, its        *)
(* critical results and its confidence (a confidence outside 0..1          *)
(* included), calculateWaterTestRisk returns a value in [0,100].           *)
C2_ClampedBothSides ==
  (fn = "calculateWaterTestRisk" /\ args.testResults.hasResults)
  => (DIsInt(ret) /\ DToInt(ret) >= 0 /\ DToInt(ret) <= 100)

(* C3: for every integer percentage p, below 0 and above 100 included,     *)
(* getRiskCategory returns "High Risk" when p >= 70, "Medium Risk" when    *)
(* 40 <= p < 70 and "Low Risk" when p < 40; 69 and 40 are Medium, 70 is    *)
(* High, 39 is Low.                                                        *)
C3_CategoryBoundaries ==
  fn = "getRiskCategory"
  => /\ ret.string = (IF args.riskPercentage >= 70 THEN "High Risk"
               ELSE IF args.riskPercentage >= 40 THEN "Medium Risk"
               ELSE "Low Risk")
     /\ args.riskPercentage \in {40, 69} => ret.string = "Medium Risk"
     /\ args.riskPercentage = 70 => ret.string = "High Risk"
     /\ args.riskPercentage = 39 => ret.string = "Low Risk"

C3_Witness ==
  fn = "getRiskCategory" /\ args.riskPercentage = 69 /\ ret.string = "Medium Risk"

(* C4: getRiskLevel is "low" whenever the value is not in the critical     *)
(* range, whatever the confidence score; "high" exactly when the value is  *)
(* in the critical range and the score is >= 0.8; "medium" for every       *)
(* in-range reading with a score below 0.8, below 0.5 included.            *)
C4_RiskLevelByRangeAndConfidence ==
  fn = "getRiskLevel"
  => /\ ret.string = (IF ~isInCriticalRange(args.parameter, args.value) THEN "low"
               ELSE IF args.score100 >= 80 THEN "high"
               ELSE "medium")
     /\ ret.string = "high" => isInCriticalRange(args.parameter, args.value)
     /\ ret.string = "low" => ~isInCriticalRange(args.parameter, args.value)

\* a critical pH reading with a confidence score below 0.5 is medium
C4_Witness ==
  /\ fn = "getRiskLevel"
  /\ args.parameter.critical_range = RANGE_pH
  /\ args.value = NumValue(<<"9">>)
  /\ args.score100 = 30
  /\ ret.string = "medium"

(* C5: the overall tier of analyzeTestResults is the worst tier among its  *)
(* TestResults: "high" iff some result is high, "medium" iff none is high  *)
(* and some is medium, "low" otherwise (no result included), whatever the  *)
(* number of fine parameters and the order of the parameters.              *)
C5_OverallIsWorstTier ==
  fn = "analyzeTestResults"
  => ret.overallRisk =
       (IF \E i \in 1..Len(ret.results) : ret.results[i].riskLevel = "high"
        THEN "high"
        ELSE IF \E i \in 1..Len(ret.results) : ret.results[i].riskLevel = "medium"
        THEN "medium"
        ELSE "low")

\* one high result after a medium one and among low ones decides the kit
C5_Witness ==
  /\ fn = "analyzeTestResults"
  /\ ret.overallRisk = "high"
  /\ Len(ret.results) = 8
  /\ ret.results[1].riskLevel = "medium"
  /\ Cardinality({i \in 1..8 : ret.results[i].riskLevel = "high"}) = 1
  /\ Cardinality({i \in 1..8 : ret.results[i].riskLevel = "low"}) >= 5

(* C6: for a range expression with both a < and a > (and no "presence",    *)
(* which takes priority), isInCriticalRange is true exactly when the       *)
(* numeric value satisfies at least one extracted clause; for              *)
(* "<6.5 or >8.5" it is true for 6.0 and 9.0 and false for 7.0, 6.5, 8.5.  *)
C6_TwoSidedIsDisjunction ==
  (fn = "isInCriticalRange" /\ ExprEntry(args.parameter.critical_range).shape = "two")
  => /\ ret.boolean = SomeClauseSatisfied(ValueEntry(args.value),
                                  ExprEntry(args.parameter.critical_range).clauses)
     /\ args.parameter.critical_range = RANGE_pH
        => /\ args.value \in {StrValue(<<"6", ".", "0">>), NumValue(<<"6">>),
                              StrValue(<<"9", ".", "0">>), NumValue(<<"9">>)}
              => ret.boolean = TRUE
           /\ args.value \in {StrValue(<<"7", ".", "0">>), NumValue(<<"7">>), StrValue(<<"6", ".", "5">>),
                              NumValue(<<"6", ".", "5">>), StrValue(<<"8", ".", "5">>), NumValue(<<"8", ".", "5">>)}
              => ret.boolean = FALSE

C6_Witness ==
  /\ fn = "isInCriticalRange"
  /\ args.parameter.critical_range = RANGE_pH
  /\ args.value = NumValue(<<"9">>)
  /\ ret.boolean = TRUE

(* C7: whenever the range expression contains "presence" in any letter     *)
(* case, isInCriticalRange is true exactly when the value, as text and     *)
(* lower-cased, is one of present, positive, yes, 1, true; every other     *)
(* value gives false, also when the expression contains < or >.            *)
C7_PresenceTakesPriority ==
  (/\ fn = "isInCriticalRange"
   /\ ExprEntry(args.parameter.critical_range).shape = "presence")
  => ret.boolean = ValueEntry(args.value).presence

\* an upper-case expression with a > clause, and the number 0.5 that the
\* clause would accept
C7_Witness ==
  /\ fn = "isInCriticalRange"
  /\ args.parameter.critical_range = <<"P", "R", "E", "S", "E", "N", "C", "E", " ", ">", "0">>
  /\ args.value = NumValue(<<"0", ".", "5">>)
  /\ ret.boolean = FALSE

(* C8: for a one-sided expression, < or > followed by a number and         *)
(* optional space-separated unit text, isInCriticalRange is true for every *)
(* value strictly beyond the threshold on the critical side and false for  *)
(* every other value, the threshold included; the unit text changes        *)
(* nothing.                                                                *)
C8_OneSidedIsStrict ==
  (fn = "isInCriticalRange" /\ ExprEntry(args.parameter.critical_range).shape = "one")
  => ret.boolean = SomeClauseSatisfied(ValueEntry(args.value),
                               ExprEntry(args.parameter.critical_range).clauses)

\* the threshold itself is not critical
C8_Witness ==
  /\ fn = "isInCriticalRange"
  /\ args.parameter.critical_range = RANGE_Chlorine
  /\ args.value = NumValue(<<"0", ".", "2">>)
  /\ ret.boolean = FALSE

(* C9: isInCriticalRange falls back to false: an expression of none of the *)
(* three shapes gives false for every value, and every expression without  *)
(* "presence" gives false for a string that does not parse as a number     *)
(* (parseNumericValue gives null for it).                                  *)
C9_FallsBackToFalse ==
  /\ (/\ fn = "isInCriticalRange"
      /\ \/ ExprEntry(args.parameter.critical_range).shape = "none"
         \/ /\ ExprEntry(args.parameter.critical_range).shape = "two"
            /\ ExprEntry(args.parameter.critical_range).clauses = <<>>)
     => ret.boolean = FALSE
  /\ (/\ fn = "isInCriticalRange"
      /\ ExprEntry(args.parameter.critical_range).shape # "presence"
      /\ args.value.kind = "string"
      /\ ~ValueEntry(args.value).numeric)
     => ret.boolean = FALSE
  /\ (/\ fn = "parseNumericValue"
      /\ args.value.kind = "string")
     => ret.null = ~ValueEntry(args.value).numeric

\* a number below the 6.5 of an expression that does not start with its <
C9_Witness ==
  /\ fn = "isInCriticalRange"
  /\ args.parameter.critical_range = <<"p", "H", " ", "<", "6", ".", "5">>
  /\ args.value = NumValue(<<"6">>)
  /\ ret.boolean = FALSE

(* C10: for every affected count, every symptom list L and every string s  *)
(* that is not one of the six severity-table names, calculateRiskLevel of  *)
(* L with s added returns the same integer score as of L.                  *)
C10_UnrecognizedSymptomsIgnored ==
  fn = "calculateRiskLevel"
  => \A i \in 1..Len(args.symptoms) :
       args.symptoms[i] \notin SeverityNames
       => /\ DIsInt(ret)
          /\ ret = calculateRiskLevel(args.affectedCount, RemoveAt(args.symptoms, i))

(* C11: with no recognized symptom in the list, calculateRiskLevel returns  *)
(* exactly the base risk of the bracket of the affected count, the upper    *)
(* bounds being inclusive: <= 1 gives 10, <= 5 gives 25, <= 15 gives 40,    *)
(* <= 30 gives 55, <= 50 gives 65, <= 100 gives 75 and a larger count 83.   *)
C11_BaseRiskByBracket ==
  (/\ fn = "calculateRiskLevel"
   /\ \A i \in 1..Len(args.symptoms) : args.symptoms[i] \notin SeverityNames)
  => /\ DIsInt(ret)
     /\ DToInt(ret) = (IF args.affectedCount <= 1 THEN 10
                       ELSE IF args.affectedCount <= 5 THEN 25
                       ELSE IF args.affectedCount <= 15 THEN 40
                       ELSE IF args.affectedCount <= 30 THEN 55
                       ELSE IF args.affectedCount <= 50 THEN 65
                       ELSE IF args.affectedCount <= 100 THEN 75
                       ELSE 83)

\* half the severity bump of a recognized symptom, in thousandths:
\* (severity - 1) * 0.5 * 1000
HalfBump1000(symptom) ==
  CASE symptom = "Diarrhea"       -> 100
    [] symptom = "Vomiting"       -> 150
    [] symptom = "Fever"          -> 200
    [] symptom = "Abdominal pain" -> 50
    [] symptom = "Skin rashes"    -> 75
    [] symptom = "Other"          -> 50

RECURSIVE SumHalfBumps1000(_, _)
SumHalfBumps1000(symptoms, i) ==
  IF i > Len(symptoms) THEN 0
  ELSE HalfBump1000(symptoms[i]) + SumHalfBumps1000(symptoms, i + 1)

BracketBase(affectedCount) ==
  IF affectedCount <= 1 THEN 10
  ELSE IF affectedCount <= 5 THEN 25
  ELSE IF affectedCount <= 15 THEN 40
  ELSE IF affectedCount <= 30 THEN 55
  ELSE IF affectedCount <= 50 THEN 65
  ELSE IF affectedCount <= 100 THEN 75
  ELSE 83

\* round(num / den), halves going up, for den > 0
RoundHalfUp(num, den) == (2 * num + den) \div (2 * den)

MinInt(a, b) == IF a <= b THEN a ELSE b

\* min(100, round(baseRisk * (1 + sum of (severity - 1) * 0.5))), exactly
ExactOutbreakScore(affectedCount, symptoms) ==
  MinInt(100, RoundHalfUp(BracketBase(affectedCount)
                            * (1000 + SumHalfBumps1000(symptoms, 1)), 1000))

(* C12: for every count and every list of distinct recognized symptoms,    *)
(* calculateRiskLevel is min(100, round(baseRisk * (1 + the sum over the   *)
(* symptoms of (severity - 1) * 0.5))): the bumps are added and the        *)
(* product is taken once.                                                  *)
C12_AdditiveMultiplierFormula ==
  (/\ fn = "calculateRiskLevel"
   /\ \A i \in 1..Len(args.symptoms) : args.symptoms[i] \in SeverityNames
   /\ \A i, j \in 1..Len(args.symptoms) :
        i # j => args.symptoms[i] # args.symptoms[j])
  => /\ DIsInt(ret)
     /\ DToInt(ret) = ExactOutbreakScore(args.affectedCount, args.symptoms)

\* the baseline of a tier, 30 for a tier that is not high, medium or low
TierBaseline(overallRisk) ==
  IF overallRisk = "high" THEN 75
  ELSE IF overallRisk = "medium" THEN 45
  ELSE IF overallRisk = "low" THEN 15
  ELSE 30

\* min(100, round(baseline * (1 + critical / total * 0.5)
\*                         * (1 + (1 - confidence100 / 100) * 0.2))), exactly,
\* the critical ratio being 0 for no results
ExactKitRisk(overallRisk, critical, total, confidence100) ==
  IF total = 0
  THEN MinInt(100, RoundHalfUp(TierBaseline(overallRisk) * (600 - confidence100),
                               500))
  ELSE MinInt(100, RoundHalfUp(TierBaseline(overallRisk) * (2 * total + critical)
                                 * (600 - confidence100),
                               2 * total * 500))

(* C13: for every input with a results array, calculateWaterTestRisk is    *)
(* min(100, round(baseline * (1 + criticalRatio * 0.5)                     *)
(* * (1 + (1 - confidence) * 0.2))), the baseline being 75, 45, 15 for the *)
(* tiers high, medium, low and 30 for any other tier, and criticalRatio    *)
(* the share of results with isInCriticalRange true, 0 for no results.     *)
C13_KitRiskFormula ==
  (fn = "calculateWaterTestRisk" /\ args.testResults.hasResults)
  => /\ DIsInt(ret)
     /\ DToInt(ret) =
          ExactKitRisk(args.testResults.overallRisk,
                       Cardinality({i \in 1..Len(args.testResults.results) :
                                      args.testResults.results[i].isInCriticalRange}),
                       Len(args.testResults.results), args.confidence100)

(* C14: calculateWaterTestRisk returns 0 whenever its input is missing or  *)
(* has no results array, whatever the tier and the confidence hold.        *)
C14_ZeroWithoutResults ==
  (fn = "calculateWaterTestRisk" /\ ~args.testResults.hasResults)
  => (DIsInt(ret) /\ DToInt(ret) = 0)

\* a high tier and a confidence of 0 without a results array
C14_Witness ==
  /\ fn = "calculateWaterTestRisk"
  /\ ~args.testResults.hasResults
  /\ args.testResults.overallRisk = "high"
  /\ args.confidence100 = 0
  /\ DIsInt(ret) /\ DToInt(ret) = 0

\* the confidence score of each catalog parameter, in hundredths
ScorePct(name) ==
  CASE name = "pH"         -> 65
    [] name = "Turbidity"  -> 85
    [] name = "Chlorine"   -> 90
    [] name = "Nitrate"    -> 70
    [] name = "Fluoride"   -> 30
    [] name = "Iron"       -> 60
    [] name = "Hardness"   -> 40
    [] name = "Alkalinity" -> 45
    [] name = "Coliform"   -> 95
    [] name = "E. coli"    -> 98
    [] name = "H2S-producing bacteria" -> 88

\* a value has been submitted under this name
Submitted(parameterValues, name) ==
  \E j \in 1..Len(parameterValues) : parameterValues[j].name = name

\* the sum of the scores, in hundredths, of the kit parameters from the i-th
\* on that have a submitted value, and their number
RECURSIVE SubmittedScorePct(_, _, _)
SubmittedScorePct(parameters, parameterValues, i) ==
  IF i > Len(parameters) THEN 0
  ELSE (IF Submitted(parameterValues, parameters[i].name)
        THEN ScorePct(parameters[i].name) ELSE 0)
       + SubmittedScorePct(parameters, parameterValues, i + 1)

SubmittedCount(parameters, parameterValues) ==
  Cardinality({i \in 1..Len(parameters) :
                 Submitted(parameterValues, parameters[i].name)})

\* |a - b| of two naturals given by their limbs
BigDist(a, b) == IF BigCmp(a, b) >= 0 THEN BigSub(a, b) ELSE BigSub(b, a)

\* the Number x is not negative and differs from num / den by at most 2^-40
\* (x = m * 2^e with e <= 0: |m * den - num * 2^-e| * 2^40 <= den * 2^-e)
CloseToRatio(x, num, den) ==
  /\ ~x.nan /\ x.s = 0 /\ x.e <= 0
  /\ BigCmp(BigShl(BigDist(BigMulSmall(x.m, den),
                           BigShl(BigFromInt(num), 0 - x.e)), 40),
            BigShl(BigFromInt(den), 0 - x.e)) <= 0

(* C15: the confidence returned by analyzeTestResults is the arithmetic    *)
(* mean (up to the rounding of the Number arithmetic, 2^-40) of the        *)
(* confidence_score of exactly the kit parameters that have a submitted    *)
(* value; it is 0 when there is none, and it lies in [0,1].                *)
C15_ConfidenceIsMeanOfAnalyzed ==
  fn = "analyzeTestResults"
  => /\ SubmittedCount(args.kit.parameters, args.parameterValues) = 0
        => IsZero(ret.confidence)
     /\ SubmittedCount(args.kit.parameters, args.parameterValues) > 0
        => CloseToRatio(ret.confidence,
                        SubmittedScorePct(args.kit.parameters, args.parameterValues, 1),
                        100 * SubmittedCount(args.kit.parameters, args.parameterValues))
     /\ DGeq(ret.confidence, Zero)
     /\ DGeq(One, ret.confidence)

\* Turbidity (0.85) and Fluoride (0.30) of the eight parameters of the field
\* kit: 0.575
C15_Witness ==
  /\ fn = "analyzeTestResults"
  /\ Len(args.kit.parameters) = 8
  /\ Len(args.parameterValues) = 2
  /\ args.parameterValues[1].name = "Fluoride"
  /\ args.parameterValues[2].name = "Turbidity"
  /\ CloseToRatio(ret.confidence, 575, 1000)

(* C16: analyzeTestResults produces exactly one TestResult for each kit    *)
(* parameter that has at least one submitted value of the same name, in    *)
(* the kit's parameter order, none for a kit parameter without a value or  *)
(* for a value whose name the kit does not have, and never more results    *)
(* than the kit has parameters.                                            *)
C16_OneResultPerSubmittedParameter ==
  fn = "analyzeTestResults"
  => /\ [i \in 1..Len(ret.results) |-> ret.results[i].parameter]
          = SelectSeq(args.kit.parameters,
                      LAMBDA parameter : Submitted(args.parameterValues, parameter.name))
     /\ Len(ret.results) <= Len(args.kit.parameters)

\* two values for pH and none for the other two parameters: one result
C16_Witness ==
  /\ fn = "analyzeTestResults"
  /\ Len(args.kit.parameters) = 3
  /\ Len(args.parameterValues) = 2
  /\ args.parameterValues[1].name = "pH"
  /\ args.parameterValues[2].name = "pH"
  /\ Len(ret.results) = 1
  /\ ret.results[1].parameter.name = "pH"

\* c1 / n1 <= c2 / n2 for the critical fractions of two results arrays, the
\* fraction of an empty array being 0
FractionLeq(results1, results2) ==
  LET c1 == Cardinality({i \in 1..Len(results1) : results1[i].isInCriticalRange})
      c2 == Cardinality({i \in 1..Len(results2) : results2[i].isInCriticalRange})
  IN  IF Len(results1) = 0 \/ c1 = 0 THEN TRUE
      ELSE IF Len(results2) = 0 THEN FALSE
      ELSE c1 * Len(results2) <= c2 * Len(results1)

\* results arrays of every length and critical count, critical results first
ResultArrays ==
  {[i \in 1..n |-> [isInCriticalRange |-> i <= c]] :
     n \in 0..MaxResults, c \in 0..MaxResults}

(* C17: calculateWaterTestRisk is monotone for a confidence in 0..1: with  *)
(* tier and confidence fixed the result does not decrease when the         *)
(* fraction of critical results increases, and with tier and results fixed *)
(* it does not decrease when the confidence decreases.                     *)
C17_MonotoneInFractionAndConfidence ==
  (/\ fn = "calculateWaterTestRisk"
   /\ args.testResults.hasResults
   /\ args.confidence100 \in 0..100)
  => /\ \A results2 \in ResultArrays :
          FractionLeq(args.testResults.results, results2)
          => DGeq(calculateWaterTestRisk(
                    [args.testResults EXCEPT !.results = results2]), ret)
     /\ \A c2 \in {c \in Confidences100 : c >= 0 /\ c <= args.confidence100} :
          DGeq(calculateWaterTestRisk(
                 [args.testResults EXCEPT !.confidence = Dec(c2, 2)]), ret)

\* medium tier, one of two results critical, confidence 0.5: 62, less than
\* with both critical and less than with confidence 0
C17_Witness ==
  /\ fn = "calculateWaterTestRisk"
  /\ args.testResults.hasResults
  /\ args.testResults.overallRisk = "medium"
  /\ args.confidence100 = 50
  /\ args.testResults.results
       = <<[isInCriticalRange |-> TRUE], [isInCriticalRange |-> FALSE]>>
  /\ DIsInt(ret) /\ DToInt(ret) = 62
  /\ ~DGeq(ret, calculateWaterTestRisk(
                  [args.testResults EXCEPT
                     !.results = <<[isInCriticalRange |-> TRUE],
                                   [isInCriticalRange |-> TRUE]>>]))
  /\ ~DGeq(ret, calculateWaterTestRisk(
                  [args.testResults EXCEPT !.confidence = Zero]))

\* the analysis displayed has a pH reading of 9 and a Chlorine reading of
\* 0.5 and nothing else
IsPh9Chlorine05(results) ==
  /\ Len(results) = 2
  /\ results[1].parameter = Param("pH", RANGE_pH, 65)
  /\ results[1].value = NumValue(<<"9">>)
  /\ results[2].parameter = Param("Chlorine", RANGE_Chlorine, 90)
  /\ results[2].value = NumValue(<<"0", ".", "5">>)

(* C18: for pH ("<6.5 or >8.5", 0.65) reading 9.0 and Chlorine             *)
(* ("<0.2 mg/L", 0.90) reading 0.5, analyzeTestResults marks pH critical   *)
(* with riskLevel medium and Chlorine not critical with riskLevel low,     *)
(* gives the overall tier medium and the confidence 0.775, and             *)
(* calculateWaterTestRisk of that result is 59, category Medium Risk.      *)
C18_EndToEndExample ==
  (fn = "ResultsDisplay" /\ IsPh9Chlorine05(args.results.results))
  => /\ args.results.results[1].isInCriticalRange
     /\ args.results.results[1].riskLevel = "medium"
     /\ ~args.results.results[2].isInCriticalRange
     /\ args.results.results[2].riskLevel = "low"
     /\ args.results.overallRisk = "medium"
     /\ CloseToRatio(args.results.confidence, 775, 1000)
     /\ DIsInt(ret.riskPercentage) /\ DToInt(ret.riskPercentage) = 59
     /\ ret.riskCategory = "Medium Risk"

C18_Witness ==
  /\ fn = "ResultsDisplay"
  /\ IsPh9Chlorine05(args.results.results)
  /\ Len(args.results.kit.parameters) = 3
  /\ DIsInt(ret.riskPercentage) /\ DToInt(ret.riskPercentage) = 59

(* C19: for every row of the authors' test table,                          *)
(* calculateRiskLevel returns a value within 5 points of the expected      *)
(* risk: about 12, about 87, about 100 and about 25.                       *)
C19_TestTableWithin5 ==
  fn = "testCase"
  => /\ DIsInt(ret.calculatedRisk)
     /\ DToInt(ret.calculatedRisk) - args.testCase.expectedRisk <= 5
     /\ args.testCase.expectedRisk - DToInt(ret.calculatedRisk) <= 5

\* the large outbreak with fever scores 78 and fails its row
C19_Witness ==
  /\ fn = "testCase"
  /\ args.testCase.affectedCount = 50
  /\ args.testCase.symptoms = <<"Fever">>
  /\ DIsInt(ret.calculatedRisk) /\ DToInt(ret.calculatedRisk) = 78
  /\ ~ret.pass

\* the category named after a tier
CategoryOfTier(overallRisk) ==
  IF overallRisk = "high" THEN "High Risk"
  ELSE IF overallRisk = "medium" THEN "Medium Risk"
  ELSE "Low Risk"

(* C27 (as stated): for every KitTestResult produced by                    *)
(* analyzeTestResults, the category of calculateWaterTestRisk followed by  *)
(* getRiskCategory agrees with the overall tier: high gives "High Risk",   *)
(* medium gives "Medium Risk", low gives "Low Risk".                       *)
C27_CategoryAgreesWithTier ==
  fn = "ResultsDisplay"
  => ret.riskCategory = CategoryOfTier(args.results.overallRisk)

(* C27 (amended): when a value was submitted for every parameter of the   *)
(* kit (what the parameter form submits) the category agrees with the      *)
(* tier; for a partial list of values the category is never below the      *)
(* tier: high gives "High Risk", low gives "Low Risk" and medium gives     *)
(* "Medium Risk" or "High Risk".                                           *)
C27_CategoryNotBelowTier ==
  fn = "ResultsDisplay"
  => /\ args.results.overallRisk = "high" => ret.riskCategory = "High Risk"
     /\ args.results.overallRisk = "low" => ret.riskCategory = "Low Risk"
     /\ args.results.overallRisk = "medium"
        => ret.riskCategory \in {"Medium Risk", "High Risk"}
     /\ Len(args.results.results) = Len(args.results.kit.parameters)
        => ret.riskCategory = CategoryOfTier(args.results.overallRisk)

\* a critical Fluoride reading alone: tier medium, 77, "High Risk"
C27_Witness ==
  /\ fn = "ResultsDisplay"
  /\ Len(args.results.results) = 1
  /\ args.results.results[1].parameter.name = "Fluoride"
  /\ args.results.overallRisk = "medium"
  /\ DIsInt(ret.riskPercentage) /\ DToInt(ret.riskPercentage) = 77
  /\ ret.riskCategory = "High Risk"

(* C28: in every KitTestResult produced by analyzeTestResults each         *)
(* TestResult has riskLevel low exactly when its isInCriticalRange is      *)
(* false, and overallRisk is low exactly when no TestResult is in the      *)
(* critical range.                                                         *)
C28_LowMeansNothingCritical ==
  fn = "analyzeTestResults"
  => /\ \A i \in 1..Len(ret.results) :
          (ret.results[i].riskLevel = "low") = ~ret.results[i].isInCriticalRange
     /\ (ret.overallRisk = "low")
          = (\A i \in 1..Len(ret.results) : ~ret.results[i].isInCriticalRange)

\* all eight parameters of the field kit read and none critical
C28_Witness ==
  /\ fn = "analyzeTestResults"
  /\ Len(ret.results) = 8
  /\ \A i \in 1..8 : ~ret.results[i].isInCriticalRange
  /\ ret.overallRisk = "low"

\* the set of the elements of a list
Elements(seq) == {seq[i] : i \in 1..Len(seq)}

(* C29: calculateRiskLevel depends only on the set of reported symptoms:   *)
(* for every affected count, reordering the list of (recognized) symptoms  *)
(* or repeating one of them does not change the score.                     *)
C29_DependsOnSymptomSetOnly ==
  (/\ fn = "calculateRiskLevel"
   /\ Elements(args.symptoms) \subseteq SeverityNames)
  => \A symptoms2 \in SymptomLists :
       Elements(symptoms2) = Elements(args.symptoms)
       => calculateRiskLevel(args.affectedCount, symptoms2) = ret

\* the position of a step in the sequence of the wizard
StepIndex(step) ==
  CASE step = "location-input"  -> 1
    [] step = "kit-selection"   -> 2
    [] step = "parameter-input" -> 3
    [] step = "results"         -> 4

(* C21: the wizard is the linear sequence location-input, kit-selection,   *)
(* parameter-input, results: a step forward goes to the immediate          *)
(* successor and a step back to the immediate predecessor (results back to *)
(* parameter-input, parameter-input back to kit-selection, kit-selection   *)
(* back to location-input).                                                *)
C21_StepsToNeighboursOnly ==
  [][currentStep' # currentStep
     => \/ StepIndex(currentStep') = StepIndex(currentStep) + 1
        \/ StepIndex(currentStep') = StepIndex(currentStep) - 1]_vars

(* C22: the stored KitTestResult is non-null exactly while the step is     *)
(* results, and the result held right after a parameter submission is the  *)
(* result of that submission: it is for the selected kit and has one       *)
(* TestResult per submitted value, in order, with that value.              *)
C22_ResultHeldExactlyInResults ==
  /\ (currentStep = "results") = (testResultsState # null)
  /\ fn = "handleParameterSubmit"
     => /\ testResultsState # null
        /\ testResultsState.kit = selectedKit
        /\ Len(testResultsState.results) = Len(args.parameterValues)
        /\ \A i \in 1..Len(args.parameterValues) :
             /\ testResultsState.results[i].parameter.name = args.parameterValues[i].name
             /\ testResultsState.results[i].value = args.parameterValues[i].value

\* a shown result was left by "Run New Test": none is held in parameter-input
C22_Witness ==
  /\ fn = "handleRunNewTest"
  /\ currentStep = "parameter-input"
  /\ testResultsState = null

(* C23: "Run New Test" runs only in results and moves to parameter-input   *)
(* with the selected kit unchanged and the result discarded; and in every  *)
(* state whose step is parameter-input or results a kit is selected, and   *)
(* a held result is a result for the selected kit.                         *)
C23_RunNewTestKeepsKit ==
  [][/\ fn' = "handleRunNewTest"
        => /\ currentStep = "results"
           /\ currentStep' = "parameter-input"
           /\ selectedKit' = selectedKit
           /\ testResultsState' = null
     /\ currentStep' \in {"parameter-input", "results"} => selectedKit' # null
     /\ testResultsState' # null => testResultsState'.kit = selectedKit']_vars

\* a second result for the bacteriological kit, after "Run New Test"
C23_Witness ==
  /\ fn = "handleParameterSubmit"
  /\ currentStep = "results"
  /\ selectedKit = testingKits[2]
  /\ testResultsState # null
  /\ testResultsState.kit = testingKits[2]
  /\ testResultsState.overallRisk = "high"

(* C30: whenever the step is past location-input the location is not      *)
(* blank and, if the last validation says coordinates are needed, both     *)
(* latitude and longitude are set; also when a validation answer arrives   *)
(* after Continue was clicked.                                             *)
C30_LocationCompleteOnceLeft ==
  currentStep # "location-input"
  => /\ Trim(location) # <<>>
     /\ needsCoordinates => (latitude # <<>> /\ longitude # <<>>)

\* every request received has been answered
AllAnswered == \A i \in 1..Len(requests) : requests[i].pc = "done"

(* C24: writes of the per-location risk record are serialized: whatever    *)
(* the interleaving of createReport and addLocationRisk requests that name *)
(* the same location (compared without case), once all are answered        *)
(* locationRisks holds at most one record for a location and type (markers *)
(* of type user-added aside, which are always new records).                *)
C24_OneRecordPerLocationAndType ==
  AllAnswered
  => \A d \in db.locationRisks, e \in db.locationRisks :
       (/\ d.type # "user-added"
        /\ d.type = e.type
        /\ ToLowerCase(d.location) = ToLowerCase(e.location))
       => d._id = e._id

(* C25: once POST /api/analytics has answered success for a submission,    *)
(* every GET /api/analytics that arrives later and is answered returns an  *)
(* entry with the location and the risk percentage of that submission.     *)
C25_SubmissionShownOnMap ==
  \A g \in 1..Len(requests) :
    (/\ requests[g].handler = "getLocationRisks"
     /\ requests[g].pc = "done"
     /\ requests[g].res.status = 200)
    => \A i \in requests[g].answeredBefore :
         (/\ requests[i].handler = "addLocationRisk"
          /\ requests[i].res.status = 200)
         => \E k \in 1..Len(requests[g].res.body.data) :
              /\ requests[g].res.body.data[k].location = requests[i].body.location
              /\ requests[g].res.body.data[k].riskPercentage
                   = DFromInt(requests[i].body.riskPercentage)

\* the documents of the reports collection with the given _id
StoredReports(objectId) == {d \in db.reports : d._id = objectId}

(* C26: in createReport a failure of the analytics write does not fail the *)
(* submission: once the report is inserted it stays in reports as it was   *)
(* built, whatever happens to the reads and writes of locationRisks, and   *)
(* the request is answered 201 with the id and the risk percentage of the  *)
(* stored report; a body that fails the schema is answered 400 and leaves  *)
(* no document in reports or locationRisks.                                *)
C26_AnalyticsFailureSwallowed ==
  \A i \in 1..Len(requests) :
    requests[i].handler = "createReport"
    => /\ requests[i].insertedId # 0
          => /\ StoredReports(requests[i].insertedId)
                  = {[requests[i].doc EXCEPT !._id = requests[i].insertedId]}
             /\ requests[i].analyticsError => requests[i].pc = "done"
             /\ requests[i].pc = "done"
                => /\ requests[i].res.status = 201
                   /\ requests[i].res.body.id = requests[i].insertedId
                   /\ requests[i].res.body.riskPercentage
                        = IF requests[i].doc.riskPercentage.nan THEN null
                          ELSE requests[i].doc.riskPercentage
       /\ requests[i].body.location = <<>>
          => /\ requests[i].pc = "done"
             /\ requests[i].res.status = 400
             /\ requests[i].insertedId = 0
             /\ \A d \in db.reports : d.createdAt # i
             /\ \A d \in db.locationRisks : d.location # <<>>

\* a report answered 201 although its analytics write failed
C26_Witness ==
  \E i \in 1..Len(requests) :
    /\ requests[i].handler = "createReport"
    /\ requests[i].pc = "done"
    /\ requests[i].analyticsError
    /\ requests[i].res.status = 201
    /\ StoredReports(requests[i].insertedId) # {}
    /\ db.locationRisks = {}

====
